---- MODULE Spec2Model ----
(***************************************************************************)
(* Backup-job scheduler, job executor and notification dispatcher of the   *)
(* lazy backup service (internal/scheduler, pkg/notification, lazy.go).    *)
(*                                                                         *)
(* Spec          the job registry: every call that edits Service.jobs      *)
(* SpecRun       cron clock, Stop / Close, executor runs, history, tempDir *)
(* SpecDispatch  one call of the notification dispatcher, Send by Send     *)
(***************************************************************************)
EXTENDS Naturals, Integers, Sequences, FiniteSets, TLC

\* ------------------------------------------------------------------ bounds
MaxRuns == 2          \* executor runs spawned in one behaviour
MaxEntryID == 3       \* cron entry ids handed out in one behaviour
MaxChannels == 3      \* rows of the notification-config table
MaxTime == 1          \* seconds the wall clock advances in one behaviour
MaxSync == 2          \* channel configs in the list SyncNotifications stores
MaxCallers == 2       \* goroutines that call Save*Config at the same time
MaxFieldLen == 1
MaxFolders == 3
MaxRowID == 3         \* primary keys a config table hands out

\* ------------------------------------------------------------ value spaces
Names == {"a", "b"}
Modes == {"full", "schema", "data"}
CronExprs == {"valid", "malformed"}

JobConfigs == [name : Names, cron : CronExprs, enabled : BOOLEAN, mode : Modes]

\* the empty path "" (no file)
NoPath == [kind |-> "none", ts |-> 0]

VARIABLES
    cronRunning,   \* cron.Cron.running
    nextID,        \* cron.Cron.nextID
    entries,       \* cron.Cron.entries: set of [id, cfg]
    jobWaiter,     \* cron.Cron.jobWaiter: scheduled runs not yet returned
    jobs,          \* Service.jobs: job name -> cron.EntryID
    configs,       \* dbu_backup_configs: job name -> BackupConfig
    history,       \* dbu_backup_histories: sequence of rows, index = ID
    dbOpen,        \* the database connection is open
    disk,          \* files in tempDir: path -> run that created it
    runs,          \* executeBackup invocations: sequence of run records
    now,           \* wall clock, in seconds
    owner,         \* the goroutine that calls Start / Stop / Close
    stopped,       \* the last lifecycle call that returned was Stop
    lastErr,       \* error returned by the last AddBackupJob / ExecuteBackupNow
    chans,         \* dbu_notification_configs: sequence of rows
    disp,          \* one dispatcher call in progress
    mutex,         \* Service.mutex and the registry calls that hold or want it
    table,         \* a name-keyed table of the store: set of rows with ID
    sent,          \* one call of Notifier.Send and what it returned
    loopvar,       \* what the closures registered by the load loop read
    notif,         \* notification.Manager: notifiers, mutex, one send
    drive,         \* the folders in Drive and one GetOrCreateFolder call
    conv           \* one MySQLConfig and what became of it

schedVars == <<cronRunning, nextID, entries, jobWaiter, jobs, configs, owner,
               stopped, lastErr>>
runVars == <<history, dbOpen, disk, runs, now>>
dispVars == <<chans, disp>>
unitVars == <<mutex, table, sent, loopvar, notif, drive, conv>>
vars == <<cronRunning, nextID, entries, jobWaiter, jobs, configs, history,
          dbOpen, disk, runs, now, owner, stopped, lastErr, chans, disp,
          mutex, table, sent, loopvar, notif, drive, conv>>

\* --------------------------------------------------------------- helpers
\* no goroutine
NoCaller == 0

\* s.mutex is unlocked and no registry call is in progress. writer: the
\* goroutine inside Lock .. Unlock; readers: those inside RLock .. RUnlock;
\* calls: the registry calls in progress, by goroutine
FreeMutex == [writer |-> NoCaller, readers |-> {}, calls |-> << >>]

\* a config table (dbu_backup_configs, dbu_notification_configs) with no row
\* and no Save*Config call in progress; the primary key starts at 1
Callers == 1..MaxCallers

Vals == {"x", "y"}

NoRowID == 0

IdleCall == [pc |-> "idle", name |-> "", val |-> "", existing |-> NoRowID, err |-> ""]

EmptyTable ==
    [rows |-> {}, nextID |-> 1, calls |-> [c \in Callers |-> IdleCall]]

\* the load loop has registered no closure that shares its loop variable:
\* every closure reads the config it was registered with
NoAlias == [shared |-> FALSE, cur |-> {}, alias |-> << >>]

\* a notification.Manager with no notifier, its mutex free, no send under way
NoNotifiers == [notifiers |-> << >>, readers |-> 0, pc |-> "idle",
                snapshot |-> << >>, pending |-> {}, chan |-> << >>,
                closed |-> FALSE, results |-> << >>]

\* a Drive with no folder and no GetOrCreateFolder call made
NoFolders == [folders |-> {}, nextID |-> 1, ret |-> [id |-> 0, err |-> ""]]

\* no conversion made
NoMySQLConfig ==
    [host |-> << >>, port |-> << >>, user |-> << >>, password |-> << >>,
     database |-> << >>]

NoConv == [kind |-> "none", config |-> NoMySQLConfig, url |-> << >>,
           parsed |-> [err |-> "", cfg |-> NoMySQLConfig]]

\* no Send has been made
NoSend == [kind |-> "none"]

Range(f) == {f[x] : x \in DOMAIN f}

Without(f, k) == [x \in (DOMAIN f) \ {k} |-> f[x]]

\* cron.Parser.Parse: accepts a well-formed six-field expression
CronParses(expr) == expr = "valid"

\* the closures of live entries that read a loop variable of an earlier load
LiveAlias(live) ==
    [i \in DOMAIN loopvar.alias \cap live |-> loopvar.alias[i]]

\* a closure goes with its entry: s.cron.Remove drops the entry and the
\* func it holds
ClosuresOf(ents) ==
    [loopvar EXCEPT !.cur = @ \cap {e.id : e \in ents},
                    !.alias = LiveAlias({e.id : e \in ents})]

\* as RemovedEntries, without the s.cron.Remove(entryID)
RemovedEntries_Keep(name) == entries

\* the registry and cron entries once any existing entry of `name` is removed
\* (s.cron.Remove(entryID); delete(s.jobs, name))
RemovedEntries(name) ==
    IF name \in DOMAIN jobs THEN {e \in entries : e.id # jobs[name]}
                            ELSE entries

\* as RemovedJobs, clearing the whole map
RemovedJobs_Clear(name) == << >>

RemovedJobs(name) == Without(jobs, name)

\* ------------------------------------------------- scheduler: registry
\* as AddBackupJobEffect, with the enabled check made after the removal of
\* the existing entry
AddBackupJobEffect_CheckAfterRemove(config) ==
    IF ~config.enabled
    THEN /\ lastErr' = "disabled"
         /\ jobs' = RemovedJobs(config.name)
         /\ entries' = RemovedEntries(config.name)
         /\ UNCHANGED nextID
    ELSE IF ~CronParses(config.cron)
    THEN /\ lastErr' = "cron"
         /\ jobs' = RemovedJobs(config.name)
         /\ entries' = RemovedEntries(config.name)
         /\ UNCHANGED nextID
    ELSE /\ lastErr' = ""
         /\ nextID' = nextID + 1
         /\ entries' = RemovedEntries(config.name)
                         \cup {[id |-> nextID + 1, cfg |-> config]}
         /\ jobs' = (config.name :> (nextID + 1)) @@ RemovedJobs(config.name)

\* Service.AddBackupJob; s.mutex is held from entry to return
AddBackupJobEffect(config) ==
    IF ~config.enabled
    THEN /\ lastErr' = "disabled"
         /\ UNCHANGED <<jobs, entries, nextID>>
    ELSE IF ~CronParses(config.cron)
    THEN /\ lastErr' = "cron"
         /\ jobs' = RemovedJobs(config.name)
         /\ entries' = RemovedEntries(config.name)
         /\ UNCHANGED nextID
    ELSE /\ lastErr' = ""
         /\ nextID' = nextID + 1
         /\ entries' = RemovedEntries(config.name)
                         \cup {[id |-> nextID + 1, cfg |-> config]}
         /\ jobs' = (config.name :> (nextID + 1)) @@ RemovedJobs(config.name)

AddBackupJob(config) ==
    /\ nextID < MaxEntryID
    /\ AddBackupJobEffect(config)
    /\ UNCHANGED <<cronRunning, jobWaiter, configs, owner, stopped>>
    /\ UNCHANGED runVars
    /\ UNCHANGED dispVars
    /\ loopvar' = ClosuresOf(entries')
    /\ UNCHANGED <<mutex, table, sent, notif, drive, conv>>

\* as RemoveBackupJob, reporting an error for a name that has no entry
RemoveBackupJob_ErrorsOnAbsent(configName) ==
    /\ jobs' = RemovedJobs(configName)
    /\ entries' = RemovedEntries(configName)
    /\ lastErr' = IF configName \in DOMAIN jobs THEN lastErr ELSE "absent"
    /\ UNCHANGED <<cronRunning, nextID, jobWaiter, configs, owner, stopped>>
    /\ UNCHANGED runVars
    /\ UNCHANGED dispVars
    /\ loopvar' = ClosuresOf(entries')
    /\ UNCHANGED <<mutex, table, sent, notif, drive, conv>>

\* Service.RemoveBackupJob
RemoveBackupJob(configName) ==
    /\ jobs' = RemovedJobs(configName)
    /\ entries' = RemovedEntries(configName)
    /\ UNCHANGED <<cronRunning, nextID, jobWaiter, configs, owner, stopped, lastErr>>
    /\ UNCHANGED runVars
    /\ UNCHANGED dispVars
    /\ loopvar' = ClosuresOf(entries')
    /\ UNCHANGED <<mutex, table, sent, notif, drive, conv>>

\* Service.GetScheduledJobs: one JobInfo per key of s.jobs
GetScheduledJobs == {[name |-> n, entryID |-> jobs[n]] : n \in DOMAIN jobs}

\* ------------------------------------------------ scheduler: lifecycle
\* database.Service.GetBackupConfigs: WHERE enabled = true
GetBackupConfigs == {configs[n] : n \in {m \in DOMAIN configs : configs[m].enabled}}

\* for _, config := range configs { s.AddBackupJob(&config) }: the closure
\* AddBackupJob registers keeps the pointer &config. The language version of
\* the build decides what the pointer is to: one variable for the whole loop
\* (before Go 1.22) or one per iteration (from Go 1.22). With fewer than two
\* iterations the two are the same
LoopVarShared ==
    IF dbOpen /\ Cardinality(GetBackupConfigs) > 1 THEN BOOLEAN ELSE {FALSE}

\* the loop variable now holds `config`: every closure registered by this
\* load that is still live, and the one registered in this iteration, reads it
LoopVarAfter(config, live, registered) ==
    IF ~loopvar.shared THEN loopvar
    ELSE LET cur == (loopvar.cur \cap live) \cup registered
             old == LiveAlias(live \ cur)
         IN [shared |-> TRUE, cur |-> cur,
             alias |-> [i \in cur |-> config] @@ old]

\* the loop has returned: its variable keeps its last value, and only the
\* closures that read a config other than the one they were registered
\* with are told apart
LoopDone(lv, ents) ==
    [shared |-> FALSE, cur |-> {},
     alias |-> [i \in {j \in DOMAIN lv.alias :
                         \E e \in ents : e.id = j /\ e.cfg # lv.alias[j]}
                 |-> lv.alias[i]]]

\* the config the closure of entry e hands to executeBackup
ClosureConfig(e) ==
    IF e.id \in DOMAIN loopvar.alias THEN loopvar.alias[e.id] ELSE e.cfg

\* Service.Start: s.cron.Start(), then loadAndScheduleConfigs reads the table
Start ==
    /\ owner.pc = "idle"
    /\ cronRunning' = TRUE
    /\ stopped' = FALSE
    /\ owner' = IF dbOpen /\ GetBackupConfigs # {}
                THEN [pc |-> "loading", todo |-> GetBackupConfigs, close |-> FALSE]
                ELSE owner
    /\ \E shared \in LoopVarShared :
         loopvar' = [shared |-> shared, cur |-> {},
                     alias |-> LiveAlias({e.id : e \in entries})]
    /\ UNCHANGED <<nextID, entries, jobWaiter, jobs, configs, lastErr>>
    /\ UNCHANGED runVars
    /\ UNCHANGED dispVars
    /\ UNCHANGED <<mutex, table, sent, notif, drive, conv>>

\* as LoadStep, with a loop that returns at the first failed registration
LoadStep_AbortOnError ==
    /\ owner.pc = "loading"
    /\ nextID < MaxEntryID
    /\ \E config \in owner.todo :
          /\ AddBackupJobEffect(config)
          /\ owner' = IF owner.todo = {config} \/ ~CronParses(config.cron)
                      THEN [pc |-> "idle", todo |-> {}, close |-> FALSE]
                      ELSE [owner EXCEPT !.todo = @ \ {config}]
          /\ LET lv == LoopVarAfter(config, {e.id : e \in entries'},
                                    IF nextID' # nextID THEN {nextID'} ELSE {})
             IN loopvar' = IF owner'.pc = "idle" THEN LoopDone(lv, entries')
                           ELSE lv
    /\ UNCHANGED <<cronRunning, jobWaiter, configs, stopped>>
    /\ UNCHANGED runVars
    /\ UNCHANGED dispVars
    /\ UNCHANGED <<mutex, table, sent, notif, drive, conv>>

\* one iteration of the loop of loadAndScheduleConfigs
LoadStep ==
    /\ owner.pc = "loading"
    /\ nextID < MaxEntryID
    /\ \E config \in owner.todo :
          /\ AddBackupJobEffect(config)
          /\ owner' = IF owner.todo = {config}
                      THEN [pc |-> "idle", todo |-> {}, close |-> FALSE]
                      ELSE [owner EXCEPT !.todo = @ \ {config}]
          /\ LET lv == LoopVarAfter(config, {e.id : e \in entries'},
                                    IF nextID' # nextID THEN {nextID'} ELSE {})
             IN loopvar' = IF owner'.pc = "idle" THEN LoopDone(lv, entries')
                           ELSE lv
    /\ UNCHANGED <<cronRunning, jobWaiter, configs, stopped>>
    /\ UNCHANGED runVars
    /\ UNCHANGED dispVars
    /\ UNCHANGED <<mutex, table, sent, notif, drive, conv>>

\* as StopBegin, with a Stop that leaves the clock running
StopBegin_NoHalt(close) ==
    /\ owner.pc = "idle"
    /\ owner' = [pc |-> "stopping", todo |-> {}, close |-> close]
    /\ UNCHANGED <<cronRunning, nextID, entries, jobWaiter, jobs, configs, stopped, lastErr>>
    /\ UNCHANGED <<history, dbOpen, disk, runs, now>>
    /\ UNCHANGED <<chans, disp>>
    /\ UNCHANGED unitVars

\* Service.Stop, first half: ctx := s.cron.Stop() halts the clock.
\* close = TRUE when the caller is LazyManager.Close
StopBegin(close) ==
    /\ owner.pc = "idle"
    /\ cronRunning' = FALSE
    /\ owner' = [pc |-> "stopping", todo |-> {}, close |-> close]
    /\ UNCHANGED <<nextID, entries, jobWaiter, jobs, configs, stopped, lastErr>>
    /\ UNCHANGED runVars
    /\ UNCHANGED dispVars
    /\ UNCHANGED unitVars

\* as StopCanReturn, without the <-ctx.Done()
StopCanReturn_NoWait == TRUE

\* <-ctx.Done(): the context is cancelled once cron's jobWaiter is drained
StopCanReturn == jobWaiter = 0

\* Service.Stop, second half; LazyManager.Close then closes the database
StopReturn ==
    /\ owner.pc = "stopping"
    /\ StopCanReturn
    /\ stopped' = TRUE
    /\ dbOpen' = IF owner.close THEN FALSE ELSE dbOpen
    /\ owner' = [pc |-> "idle", todo |-> {}, close |-> FALSE]
    /\ UNCHANGED <<cronRunning, nextID, entries, jobWaiter, jobs, configs, lastErr>>
    /\ UNCHANGED <<history, disk, runs, now>>
    /\ UNCHANGED dispVars
    /\ UNCHANGED unitVars

\* ------------------------------------------------------ spawning runs
\* the first lines of executeBackup: the in-memory BackupHistory
NoFileID == 0

NewRun(origin, config) ==
    [origin |-> origin, cfg |-> config, pc |-> "save", hid |-> 0,
     path |-> NoPath, hstatus |-> "in_progress", hfile |-> NoPath,
     hfileID |-> NoFileID, hsize |-> 0, herr |-> "",
     nUpd |-> 0, nErr |-> 0, nOk |-> 0, nFolder |-> 0, nUpload |-> 0,
     delivery |-> "", evName |-> ""]

\* as ChainHolds, for a cron built with cron.SkipIfStillRunning
ChainHolds_SkipIfStillRunning(e) ==
    \E r \in 1..Len(runs) :
       /\ runs[r].origin = "cron"
       /\ runs[r].cfg.name = e.cfg.name
       /\ runs[r].pc # "done"

\* the job wrappers of the cron hold a firing of `e` back:
\* cron.New(cron.WithSeconds()) installs no wrapper chain
ChainHolds(e) == FALSE

\* the cron clock fires an entry: startJob adds to jobWaiter and runs the
\* closure of AddBackupJob in its own goroutine
ClockRuns == cronRunning

Fire(e) ==
    /\ ClockRuns
    /\ e \in entries
    /\ ~ChainHolds(e)
    /\ Len(runs) < MaxRuns
    /\ runs' = Append(runs, NewRun("cron", ClosureConfig(e)))
    /\ jobWaiter' = jobWaiter + 1
    /\ UNCHANGED <<cronRunning, nextID, entries, jobs, configs, owner, stopped, lastErr>>
    /\ UNCHANGED <<history, dbOpen, disk, now>>
    /\ UNCHANGED dispVars
    /\ UNCHANGED unitVars

\* as ExecuteBackupNow, returning once the run has written its running record
ExecuteBackupNow_WaitsForSave(configName) ==
    /\ IF dbOpen /\ configName \in DOMAIN configs
       THEN /\ Len(runs) < MaxRuns
            /\ runs' = Append(runs, [NewRun("manual", configs[configName]) EXCEPT
                                       !.pc = "connect", !.hid = Len(history) + 1])
            /\ history' = Append(history,
                     [status |-> "in_progress", completed |-> FALSE,
                      file |-> NoPath, fileID |-> NoFileID, size |-> 0,
                      err |-> ""])
            /\ lastErr' = ""
       ELSE /\ lastErr' = "load"
            /\ UNCHANGED <<runs, history>>
    /\ UNCHANGED <<cronRunning, nextID, entries, jobWaiter, jobs, configs, owner, stopped>>
    /\ UNCHANGED <<dbOpen, disk, now>>
    /\ UNCHANGED dispVars
    /\ UNCHANGED unitVars

\* Service.ExecuteBackupNow
ExecuteBackupNow(configName) ==
    /\ IF dbOpen /\ configName \in DOMAIN configs
       THEN /\ Len(runs) < MaxRuns
            /\ runs' = Append(runs, NewRun("manual", configs[configName]))
            /\ lastErr' = ""
       ELSE /\ lastErr' = "load"
            /\ UNCHANGED runs
    /\ UNCHANGED <<cronRunning, nextID, entries, jobWaiter, jobs, configs, owner, stopped>>
    /\ UNCHANGED <<history, dbOpen, disk, now>>
    /\ UNCHANGED dispVars
    /\ UNCHANGED unitVars

\* as ValidateCronExpression, with every expression accepted
ValidateCronExpression_AcceptAll(expr) == TRUE

\* scheduler.ValidateCronExpression: Parse of a parser with the six fields
\* and the descriptors, the parser of cron.New(cron.WithSeconds())
ValidateCronExpression(expr) == CronParses(expr)

\* LazyManager.AddBackupMySQLConfig: validate, then SaveBackupConfig (upsert)
AddBackupMySQLConfig(name, mode, expression) ==
    /\ IF ~ValidateCronExpression(expression)
       THEN /\ lastErr' = "invalid cron"
            /\ UNCHANGED configs
       ELSE IF ~dbOpen
       THEN /\ lastErr' = "store"
            /\ UNCHANGED configs
       ELSE /\ lastErr' = ""
            /\ configs' = (name :> [name |-> name, cron |-> expression,
                                    enabled |-> TRUE, mode |-> mode])
                             @@ Without(configs, name)
    /\ UNCHANGED <<cronRunning, nextID, entries, jobWaiter, jobs, owner, stopped>>
    /\ UNCHANGED runVars
    /\ UNCHANGED dispVars
    /\ UNCHANGED unitVars

\* the cron argument of UpdateBackupConfig: "" keeps the stored schedule
CronArgs == CronExprs \cup {""}

\* LazyManager.UpdateBackupConfig: load the config, validate a new cron
\* expression, store the config, then AddBackupJob or RemoveBackupJob
UpdateBackupConfig(name, cronSchedule, enabled) ==
    /\ enabled => nextID < MaxEntryID
    /\ IF ~(dbOpen /\ name \in DOMAIN configs)
       THEN /\ lastErr' = "load"
            /\ UNCHANGED <<configs, jobs, entries, nextID>>
       ELSE IF /\ cronSchedule # ""
               /\ cronSchedule # configs[name].cron
               /\ ~ValidateCronExpression(cronSchedule)
       THEN /\ lastErr' = "invalid cron"
            /\ UNCHANGED <<configs, jobs, entries, nextID>>
       ELSE LET config == [configs[name] EXCEPT
                             !.cron = IF cronSchedule # "" THEN cronSchedule ELSE @,
                             !.enabled = enabled] IN
            \E ok \in {TRUE, FALSE} :
              IF ~ok
              THEN /\ lastErr' = "store"
                   /\ UNCHANGED <<configs, jobs, entries, nextID>>
              ELSE /\ configs' = [configs EXCEPT ![name] = config]
                   /\ IF enabled
                      THEN AddBackupJobEffect(config)
                      ELSE /\ jobs' = RemovedJobs(name)
                           /\ entries' = RemovedEntries(name)
                           /\ lastErr' = ""
                           /\ UNCHANGED nextID
    /\ UNCHANGED <<cronRunning, jobWaiter, owner, stopped>>
    /\ UNCHANGED runVars
    /\ UNCHANGED dispVars
    /\ loopvar' = ClosuresOf(entries')
    /\ UNCHANGED <<mutex, table, sent, notif, drive, conv>>

\* LazyManager.DeleteBackupConfig: RemoveBackupJob first, then the delete in
\* the store, whose error is returned with the job already removed
DeleteBackupConfig(name) ==
    /\ jobs' = RemovedJobs(name)
    /\ entries' = RemovedEntries(name)
    /\ \E ok \in {TRUE, FALSE} :
         /\ configs' = IF ok /\ dbOpen THEN Without(configs, name) ELSE configs
         /\ lastErr' = IF ok /\ dbOpen THEN "" ELSE "store"
    /\ UNCHANGED <<cronRunning, nextID, jobWaiter, owner, stopped>>
    /\ UNCHANGED runVars
    /\ UNCHANGED dispVars
    /\ loopvar' = ClosuresOf(entries')
    /\ UNCHANGED <<mutex, table, sent, notif, drive, conv>>

\* database.Service.DeleteAllBackupConfig: every row of the table is deleted
DbDeleteAllBackupConfig == << >>

\* LazyManager.DeleteAllBackupConfig: the store only, no call of the scheduler
DeleteAllBackupConfig ==
    /\ \E ok \in {TRUE, FALSE} :
         /\ configs' = IF ok /\ dbOpen THEN DbDeleteAllBackupConfig ELSE configs
         /\ lastErr' = IF ok /\ dbOpen THEN "" ELSE "store"
    /\ UNCHANGED <<cronRunning, nextID, entries, jobWaiter, jobs, owner, stopped>>
    /\ UNCHANGED runVars
    /\ UNCHANGED dispVars
    /\ UNCHANGED unitVars

\* the wall clock advances by one second
Tick ==
    /\ now < MaxTime
    /\ now' = now + 1
    /\ UNCHANGED schedVars
    /\ UNCHANGED <<history, dbOpen, disk, runs>>
    /\ UNCHANGED dispVars
    /\ UNCHANGED unitVars

\* ------------------------------------------------------- job executor
\* outcomes of one write to the database: it fails when the connection is
\* closed and may fail (connection lost, timeout) when it is open
DbWriteOutcomes == IF dbOpen THEN {TRUE, FALSE} ELSE {FALSE}

\* a run takes one step and becomes `rec`; a scheduled run that returns
\* releases cron's jobWaiter (startJob: defer c.jobWaiter.Done())
Advance(r, rec) ==
    /\ runs' = [runs EXCEPT ![r] = rec]
    /\ jobWaiter' = IF rec.pc = "done" /\ rec.origin = "cron"
                    THEN jobWaiter - 1 ELSE jobWaiter

\* updateBackupHistory, first half: the in-memory record gets status, file
\* name and error; a failed status goes on to the error notification
SetOutcome(rec, status, fileName, fileID, fileSize, errorMsg) ==
    [rec EXCEPT !.hstatus = status, !.hfile = fileName, !.hfileID = fileID,
                !.hsize = fileSize, !.herr = errorMsg,
                !.pc = IF status = "failed" THEN "fail_notify" ELSE "succ_write"]

\* the row written by database.Service.UpdateBackupHistory
HistoryRow(rec) ==
    [status |-> rec.hstatus, completed |-> TRUE, file |-> rec.hfile,
     fileID |-> rec.hfileID, size |-> rec.hsize, err |-> rec.herr]

\* fileInfo.Size() of a dump file: a full dump is larger than a schema dump
FileSize(p) == IF p.kind = "backup" THEN 2 ELSE IF p.kind = "schema" THEN 1 ELSE 0

\* gdrive.Service.UploadFile: the UploadResult of the upload made by run r;
\* Drive hands out a fresh file id and reports the name it was given
UploadResult(r, p) == [FileName |-> p, FileID |-> r, Size |-> FileSize(p)]

\* MySQLBackup.BackupSchema / BackupSchemaOnly: the output path
DumpPath(mode) ==
    [kind |-> IF mode = "full" THEN "backup" ELSE "schema", ts |-> now]

\* executeBackup: SaveBackupHistory(history) with status in_progress
RunSave(r) ==
    /\ runs[r].pc = "save"
    /\ \E ok \in DbWriteOutcomes :
         IF ok
         THEN /\ history' = Append(history,
                     [status |-> "in_progress", completed |-> FALSE,
                      file |-> NoPath, fileID |-> NoFileID, size |-> 0,
                      err |-> ""])
              /\ Advance(r, [runs[r] EXCEPT !.pc = "connect",
                                            !.hid = Len(history) + 1])
         ELSE /\ Advance(r, [runs[r] EXCEPT !.pc = "done"])
              /\ UNCHANGED history
    /\ UNCHANGED <<cronRunning, nextID, entries, jobs, configs, owner, stopped, lastErr>>
    /\ UNCHANGED <<dbOpen, disk, now>>
    /\ UNCHANGED dispVars
    /\ UNCHANGED unitVars

\* executeBackup: NewBackupFromURL and TestConnection
RunConnect(r) ==
    /\ runs[r].pc = "connect"
    /\ \E res \in {"ok", "svc", "conn"} :
         Advance(r, IF res = "ok" THEN [runs[r] EXCEPT !.pc = "dump"]
                    ELSE SetOutcome(runs[r], "failed", NoPath, NoFileID, 0, res))
    /\ UNCHANGED <<cronRunning, nextID, entries, jobs, configs, owner, stopped, lastErr>>
    /\ UNCHANGED <<history, dbOpen, disk, now>>
    /\ UNCHANGED dispVars
    /\ UNCHANGED unitVars

\* files left in tempDir by a dump that ended with `res`: runMySQLDump
\* creates the output file before it runs mysqldump
DiskAfterDump(r, p, res) ==
    IF res \in {"ok", "cmd"} THEN (p :> r) @@ Without(disk, p) ELSE disk

\* executeBackup: switch config.BackupMode; a mode that is neither "full"
\* nor "schema" dumps nothing and leaves backupPath empty.
\* res: ok, nofile (MkdirAll or os.Create failed), cmd (mysqldump failed)
RunDump(r) ==
    /\ runs[r].pc = "dump"
    /\ IF runs[r].cfg.mode \in {"full", "schema"}
       THEN \E res \in {"ok", "nofile", "cmd"} :
              LET p == DumpPath(runs[r].cfg.mode) IN
              /\ disk' = DiskAfterDump(r, p, res)
              /\ Advance(r, IF res = "ok"
                            THEN [runs[r] EXCEPT !.pc = "stat", !.path = p]
                            ELSE SetOutcome(runs[r], "failed", NoPath, NoFileID, 0, "dump"))
       ELSE /\ Advance(r, [runs[r] EXCEPT !.pc = "stat"])
            /\ UNCHANGED disk
    /\ UNCHANGED <<cronRunning, nextID, entries, jobs, configs, owner, stopped, lastErr>>
    /\ UNCHANGED <<history, dbOpen, now>>
    /\ UNCHANGED dispVars
    /\ UNCHANGED unitVars

\* executeBackup: os.Stat(backupPath); fails when the file is not there and
\* may fail for another reason when it is
RunStat(r) ==
    /\ runs[r].pc = "stat"
    /\ \E ok \in (IF runs[r].path \in DOMAIN disk THEN {TRUE, FALSE} ELSE {FALSE}) :
         Advance(r, IF ok THEN [runs[r] EXCEPT !.pc = "folder"]
                    ELSE SetOutcome(runs[r], "failed", runs[r].path, NoFileID, 0, "stat"))
    /\ UNCHANGED <<cronRunning, nextID, entries, jobs, configs, owner, stopped, lastErr>>
    /\ UNCHANGED <<history, dbOpen, disk, now>>
    /\ UNCHANGED dispVars
    /\ UNCHANGED unitVars

\* executeBackup: driveService.GetOrCreateFolder
RunFolder(r) ==
    /\ runs[r].pc = "folder"
    /\ \E ok \in BOOLEAN :
         LET rec == [runs[r] EXCEPT !.nFolder = @ + 1] IN
         Advance(r, IF ok THEN [rec EXCEPT !.pc = "upload"]
                    ELSE SetOutcome(rec, "failed", rec.path, NoFileID,
                                    FileSize(rec.path), "folder"))
    /\ UNCHANGED <<cronRunning, nextID, entries, jobs, configs, owner, stopped, lastErr>>
    /\ UNCHANGED <<history, dbOpen, disk, now>>
    /\ UNCHANGED dispVars
    /\ UNCHANGED unitVars

\* executeBackup: driveService.UploadFile; os.Open fails when the file is gone
RunUpload(r) ==
    /\ runs[r].pc = "upload"
    /\ \E ok \in (IF runs[r].path \in DOMAIN disk THEN {TRUE, FALSE} ELSE {FALSE}) :
         LET rec == [runs[r] EXCEPT !.nUpload = @ + 1]
             res == UploadResult(r, rec.path) IN
         Advance(r, IF ok THEN SetOutcome(rec, "success", res.FileName,
                                          res.FileID, res.Size, "")
                    ELSE SetOutcome(rec, "failed", rec.path, NoFileID,
                                    FileSize(rec.path), "upload"))
    /\ UNCHANGED <<cronRunning, nextID, entries, jobs, configs, owner, stopped, lastErr>>
    /\ UNCHANGED <<history, dbOpen, disk, now>>
    /\ UNCHANGED dispVars
    /\ UNCHANGED unitVars

\* the failure paths of executeBackup that call cleanupTempFile
FailCleans(stage) == stage \in {"folder", "upload"}

\* what a dispatch reports back: every Send succeeded, some failed, all
\* failed, or the channel table could not be loaded
Deliveries == {"all_sent", "some_failed", "all_failed", "not_loaded"}

\* as AfterNotify, with an executor that fails the run when a delivery failed
AfterNotify_FailsRun(rec, delivery) ==
    IF delivery = "all_sent" THEN [rec EXCEPT !.delivery = delivery]
    ELSE [rec EXCEPT !.delivery = delivery, !.hstatus = "failed",
                     !.herr = "notify"]

\* the run record once a dispatch has returned: SendBackupErrorNotification
\* and SendBackupSuccessNotification are called for effect; what they
\* return is dropped by the executor's next statement
AfterNotify(rec, delivery) == [rec EXCEPT !.delivery = delivery]

\* BackupConfig.DatabaseURL as the manager stores it: "mysql://" and the
\* connection string of the job's database
ConfigDatabaseURL(config) == [scheme |-> "mysql", db |-> config.name]

\* BackupHistory.DatabaseURL of the record executeBackup builds: the field
\* is not among those it sets, so it is the empty string
HistoryDatabaseURL == [scheme |-> "", db |-> ""]

UnknownConfig == "Unknown Config"

\* extractConfigNameFromHistory: the name of a loaded enabled config whose
\* DatabaseURL equals history.DatabaseURL, "Unknown Config" when the load
\* fails or no config matches
ExtractConfigNameFromHistory ==
    IF ~dbOpen THEN {UnknownConfig}
    ELSE IF \E c \in GetBackupConfigs : ConfigDatabaseURL(c) = HistoryDatabaseURL
    THEN {c.name : c \in {x \in GetBackupConfigs :
                            ConfigDatabaseURL(x) = HistoryDatabaseURL}}
    ELSE {UnknownConfig}

\* updateBackupHistory: if status == "failed", sendBackupErrorNotification
\* with ConfigName from extractConfigNameFromHistory
RunFailNotify(r) ==
    /\ runs[r].pc = "fail_notify"
    /\ \E delivery \in Deliveries, configName \in ExtractConfigNameFromHistory :
         Advance(r, [AfterNotify(runs[r], delivery) EXCEPT
                       !.pc = "fail_write", !.nErr = @ + 1,
                       !.evName = configName])
    /\ UNCHANGED <<cronRunning, nextID, entries, jobs, configs, owner, stopped, lastErr>>
    /\ UNCHANGED <<history, dbOpen, disk, now>>
    /\ UNCHANGED dispVars
    /\ UNCHANGED unitVars

\* the history table after UpdateBackupHistory(history) ended with `ok`
HistoryAfterUpdate(rec, ok) ==
    IF ok THEN [history EXCEPT ![rec.hid] = HistoryRow(rec)] ELSE history

\* as AfterFailure, without the return that follows a failed upload
AfterFailure_FallThrough(stage) ==
    IF stage = "upload" THEN "succ_write"
    ELSE IF stage = "folder" THEN "cleanup" ELSE "done"

\* where executeBackup goes once updateBackupHistory(history, "failed", ...)
\* has returned: cleanupTempFile and return, or return at once
AfterFailure(stage) == IF FailCleans(stage) THEN "cleanup" ELSE "done"

\* updateBackupHistory: UpdateBackupHistory(history); an error is logged
RunFailWrite(r) ==
    /\ runs[r].pc = "fail_write"
    /\ \E ok \in DbWriteOutcomes :
         history' = HistoryAfterUpdate(runs[r], ok)
    /\ Advance(r, [runs[r] EXCEPT !.pc = AfterFailure(runs[r].herr),
                                  !.nUpd = @ + 1, !.delivery = ""])
    /\ UNCHANGED <<cronRunning, nextID, entries, jobs, configs, owner, stopped, lastErr>>
    /\ UNCHANGED <<dbOpen, disk, now>>
    /\ UNCHANGED dispVars
    /\ UNCHANGED unitVars

\* executeBackup: updateBackupHistory(history, "success", ...)
RunSuccWrite(r) ==
    /\ runs[r].pc = "succ_write"
    /\ \E ok \in DbWriteOutcomes :
         history' = HistoryAfterUpdate(runs[r], ok)
    /\ Advance(r, [runs[r] EXCEPT !.pc = "succ_notify", !.nUpd = @ + 1])
    /\ UNCHANGED <<cronRunning, nextID, entries, jobs, configs, owner, stopped, lastErr>>
    /\ UNCHANGED <<dbOpen, disk, now>>
    /\ UNCHANGED dispVars
    /\ UNCHANGED unitVars

\* executeBackup: notifyManager.SendBackupSuccessNotification
RunSuccNotify(r) ==
    /\ runs[r].pc = "succ_notify"
    /\ \E delivery \in Deliveries :
         Advance(r, [AfterNotify(runs[r], delivery) EXCEPT
                       !.pc = "cleanup", !.nOk = @ + 1,
                       !.evName = runs[r].cfg.name])
    /\ UNCHANGED <<cronRunning, nextID, entries, jobs, configs, owner, stopped, lastErr>>
    /\ UNCHANGED <<history, dbOpen, disk, now>>
    /\ UNCHANGED dispVars
    /\ UNCHANGED unitVars

\* cleanupTempFile: os.Remove(filePath)
RunCleanup(r) ==
    /\ runs[r].pc = "cleanup"
    /\ disk' = Without(disk, runs[r].path)
    /\ Advance(r, [runs[r] EXCEPT !.pc = "done", !.delivery = ""])
    /\ UNCHANGED <<cronRunning, nextID, entries, jobs, configs, owner, stopped, lastErr>>
    /\ UNCHANGED <<history, dbOpen, now>>
    /\ UNCHANGED dispVars
    /\ UNCHANGED unitVars

RunStep(r) ==
    \/ RunSave(r)
    \/ RunConnect(r)
    \/ RunDump(r)
    \/ RunStat(r)
    \/ RunFolder(r)
    \/ RunUpload(r)
    \/ RunFailNotify(r)
    \/ RunFailWrite(r)
    \/ RunSuccWrite(r)
    \/ RunSuccNotify(r)
    \/ RunCleanup(r)

\* ------------------------------------------- notification dispatcher
\* rows of dbu_notification_configs. "email" stands for a channel kind that
\* createNotifierFromConfig does not support, settings "illtyped" for a
\* Config map that does not unmarshal into the kind's config struct,
\* settings "missing" for a Config map without a required field
\* (webhook_url, api_token, room_id) or with an empty one
ChannelRows ==
    {c \in [kind : {"discord", "email"}, settings : {"ok", "illtyped"},
            enabled : BOOLEAN, onSuccess : BOOLEAN, onError : BOOLEAN] :
       c.kind = "email" => c.settings = "ok"}

Events == {"success", "failure"}

IdleDisp ==
    [pc |-> "idle", event |-> "success", loaded |-> FALSE, list |-> << >>,
     i |-> 1, results |-> << >>, started |-> {}, returned |-> {},
     err |-> ""]

\* database.Service.GetEnabledNotificationConfigs: WHERE enabled = true
GetEnabledNotificationConfigs ==
    SelectSeq([k \in 1..Len(chans) |-> k], LAMBDA k : chans[k].enabled)

\* as NotifyFlag, with the two flags taken for each other
NotifyFlag_Swapped(c, event) == IF event = "success" THEN c.onError ELSE c.onSuccess

\* if !config.NotifyOnSuccess / if !config.NotifyOnError
NotifyFlag(c, event) == IF event = "success" THEN c.onSuccess ELSE c.onError

\* Manager.createNotifierFromConfig returns a notifier and no error
\* parse*Config is json.Marshal then json.Unmarshal into the struct: an
\* absent or empty field unmarshals to "" without an error
CanBuild(c) ==
    c.kind \in {"chatwork", "discord", "slack"} /\ c.settings \in {"ok", "missing"}

\* notifier.ValidateConfig returns nil: every required field is a non-empty
\* string
ValidateConfig(c) == c.settings = "ok"

\* SendBackupSuccessNotification / SendBackupErrorNotification: load the
\* enabled configs; a load error returns nil
DispatchBegin(event, loadOk) ==
    /\ disp.pc = "idle"
    /\ disp' = IF loadOk
               THEN [IdleDisp EXCEPT !.pc = "loop", !.event = event,
                                     !.loaded = TRUE,
                                     !.list = GetEnabledNotificationConfigs]
               ELSE [IdleDisp EXCEPT !.pc = "done", !.event = event]
    /\ UNCHANGED chans
    /\ UNCHANGED schedVars
    /\ UNCHANGED runVars
    /\ UNCHANGED unitVars

\* one iteration of the loop over the configs, up to the call of Send;
\* past the last config the collected results are returned
DispatchNext ==
    /\ disp.pc = "loop"
    /\ disp' =
         IF disp.i > Len(disp.list) THEN [disp EXCEPT !.pc = "done"]
         ELSE LET k == disp.list[disp.i] IN
              IF ~NotifyFlag(chans[k], disp.event) \/ ~CanBuild(chans[k])
              THEN [disp EXCEPT !.i = @ + 1]
              ELSE [disp EXCEPT !.pc = "send", !.started = @ \cup {k}]
    /\ UNCHANGED chans
    /\ UNCHANGED schedVars
    /\ UNCHANGED runVars
    /\ UNCHANGED unitVars

\* notifier.Send(message) returns; its result is appended and the loop goes on
DispatchSendReturn(ok) ==
    /\ disp.pc = "send"
    /\ LET k == disp.list[disp.i] IN
       disp' = [disp EXCEPT !.pc = "loop", !.i = @ + 1,
                            !.returned = @ \cup {k},
                            !.results = Append(@, [channel |-> k, success |-> ok])]
    /\ UNCHANGED chans
    /\ UNCHANGED schedVars
    /\ UNCHANGED runVars
    /\ UNCHANGED unitVars

\* as TestNotification, with the result of Send dropped
TestNotification_SwallowsSendError(k) ==
    /\ disp.pc = "idle"
    /\ \E ok \in BOOLEAN :
         disp' = IF k \notin DOMAIN chans
                 THEN [IdleDisp EXCEPT !.pc = "done", !.event = "test",
                                       !.err = "get"]
                 ELSE IF ~CanBuild(chans[k])
                 THEN [IdleDisp EXCEPT !.pc = "done", !.event = "test",
                                       !.err = "create"]
                 ELSE [IdleDisp EXCEPT !.pc = "done", !.event = "test",
                         !.started = {k}, !.returned = {k},
                         !.results = <<[channel |-> k, success |-> ok]>>]
    /\ UNCHANGED chans
    /\ UNCHANGED schedVars
    /\ UNCHANGED runVars
    /\ UNCHANGED unitVars

\* Manager.TestNotification: GetNotificationConfigByName (any row of that
\* name, enabled or not; no such row is an error), createNotifierFromConfig
\* (its error is returned), one synchronous Send whose error is returned.
\* The k-th row stands for the row named k
TestNotification(k) ==
    /\ disp.pc = "idle"
    /\ \E ok \in BOOLEAN :
         disp' = IF k \notin DOMAIN chans
                 THEN [IdleDisp EXCEPT !.pc = "done", !.event = "test",
                                       !.err = "get"]
                 ELSE IF ~CanBuild(chans[k])
                 THEN [IdleDisp EXCEPT !.pc = "done", !.event = "test",
                                       !.err = "create"]
                 ELSE [IdleDisp EXCEPT !.pc = "done", !.event = "test",
                         !.started = {k}, !.returned = {k},
                         !.results = <<[channel |-> k, success |-> ok]>>,
                         !.err = IF ok THEN "" ELSE "send"]
    /\ UNCHANGED chans
    /\ UNCHANGED schedVars
    /\ UNCHANGED runVars
    /\ UNCHANGED unitVars

\* the channel configs a caller can submit
SubmittedRows ==
    {c \in [kind : {"discord", "chatwork", "email"},
            settings : {"ok", "missing", "illtyped"},
            enabled : BOOLEAN, onSuccess : {TRUE}, onError : {TRUE}] :
       c.kind = "email" => c.settings = "ok"}

SubmittedLists ==
    UNION {[1..n -> SubmittedRows] : n \in 0..MaxSync}

\* database.Service.DeleteAllNotificationConfig: no row is left
DbDeleteAllNotificationConfig == << >>

\* LazyManager.SyncNotifications: clear the table, then SaveNotificationConfig
\* for each config of the manager's configuration, as it is; the first save
\* that fails returns (saved = the number of saves that succeeded). The k-th
\* config of the list is the one named k
SyncNotifications(list, deleteOk, saved) ==
    /\ disp.pc = "idle"
    /\ saved \in 0..Len(list)
    /\ chans' = IF ~deleteOk THEN chans
                ELSE DbDeleteAllNotificationConfig \o SubSeq(list, 1, saved)
    /\ lastErr' = IF ~deleteOk THEN "clear"
                  ELSE IF saved < Len(list) THEN "save" ELSE ""
    /\ UNCHANGED <<cronRunning, nextID, entries, jobWaiter, jobs, configs,
                   owner, stopped, disp>>
    /\ UNCHANGED runVars
    /\ UNCHANGED unitVars

\* BackupManager.AddNotificationConfig: parse the config for the channel
\* (unsupported channel and parse error are returned), ValidateConfig (its
\* error is returned), then SaveNotificationConfig of the row with Enabled
\* true: an insert for a new name k, an update of the row named k otherwise
AddNotificationConfig(k, c, saveOk) ==
    /\ disp.pc = "idle"
    /\ k \in 1..(Len(chans) + 1)
    /\ k <= MaxChannels
    /\ LET row == [c EXCEPT !.enabled = TRUE] IN
       IF ~CanBuild(c) THEN lastErr' = "invalid" /\ chans' = chans
       ELSE IF ~ValidateConfig(c) THEN lastErr' = "validation" /\ chans' = chans
       ELSE IF ~saveOk THEN lastErr' = "save" /\ chans' = chans
       ELSE /\ lastErr' = ""
            /\ chans' = IF k \in DOMAIN chans THEN [chans EXCEPT ![k] = row]
                        ELSE Append(chans, row)
    /\ UNCHANGED <<cronRunning, nextID, entries, jobWaiter, jobs, configs,
                   owner, stopped, disp>>
    /\ UNCHANGED runVars
    /\ UNCHANGED unitVars

\* ----------------------------------------------------- registry lock
\* the configs handed to AddBackupJob
LockArgs == {config \in JobConfigs : config.name = "a" /\ config.mode = "full"}

\* a goroutine enters AddBackupJob, RemoveBackupJob or GetScheduledJobs and
\* blocks in s.mutex.Lock() / s.mutex.RLock()
RegistryCall(c, op, arg) ==
    /\ c \notin DOMAIN mutex.calls
    /\ mutex' = [mutex EXCEPT !.calls = (c :> [op |-> op, arg |-> arg,
                                              pc |-> "wait"]) @@ @]
    /\ UNCHANGED <<table, sent, loopvar, notif, drive, conv>>
    /\ UNCHANGED schedVars
    /\ UNCHANGED runVars
    /\ UNCHANGED dispVars

\* sync.RWMutex: Lock returns when no goroutine holds the mutex, RLock when
\* no goroutine holds it exclusively
MutexLock(c) ==
    /\ c \in DOMAIN mutex.calls
    /\ mutex.calls[c].pc = "wait"
    /\ mutex.writer = NoCaller
    /\ mutex.calls[c].op # "list" => mutex.readers = {}
    /\ mutex' = [mutex EXCEPT
                   !.writer = IF mutex.calls[c].op = "list" THEN @ ELSE c,
                   !.readers = IF mutex.calls[c].op = "list" THEN @ \cup {c} ELSE @,
                   !.calls[c].pc = "held"]
    /\ UNCHANGED <<table, sent, loopvar, notif, drive, conv>>
    /\ UNCHANGED schedVars
    /\ UNCHANGED runVars
    /\ UNCHANGED dispVars

\* the body of the call under the mutex, then the deferred Unlock / RUnlock
EditUnlock(c) ==
    /\ c \in DOMAIN mutex.calls
    /\ mutex.calls[c].pc = "held"
    /\ LET call == mutex.calls[c] IN
       CASE call.op = "add" ->
              /\ nextID < MaxEntryID
              /\ AddBackupJobEffect(call.arg)
         [] call.op = "remove" ->
              /\ jobs' = RemovedJobs(call.arg)
              /\ entries' = RemovedEntries(call.arg)
              /\ UNCHANGED <<nextID, lastErr>>
         [] call.op = "list" ->
              UNCHANGED <<jobs, entries, nextID, lastErr>>
    /\ mutex' = [writer |-> IF mutex.writer = c THEN NoCaller ELSE mutex.writer,
                 readers |-> mutex.readers \ {c},
                 calls |-> Without(mutex.calls, c)]
    /\ UNCHANGED <<cronRunning, jobWaiter, configs, owner, stopped>>
    /\ loopvar' = ClosuresOf(entries')
    /\ UNCHANGED <<table, sent, notif, drive, conv>>
    /\ UNCHANGED runVars
    /\ UNCHANGED dispVars

\* as RunWaitsOnMutex, with a run that takes s.mutex for each of its steps
RunWaitsOnMutex_Locks(r) == mutex.writer # NoCaller

\* executeBackup never calls s.mutex.Lock or s.mutex.RLock
RunWaitsOnMutex(r) == FALSE

\* a step of a run next to the registry calls
RunStepBesideLock(r) ==
    /\ ~RunWaitsOnMutex(r)
    /\ RunStep(r)

\* one manual trigger
TriggerOne ==
    /\ Len(runs) = 0
    /\ ExecuteBackupNow("a")

\* ------------------------------------------------------ config tables
\* s.db.Where("name = ?", name).First(&existing): the ID of the row of that
\* name, NoRowID for gorm.ErrRecordNotFound
DbFirst(name) ==
    IF \E r \in table.rows : r.Name = name
    THEN (CHOOSE r \in table.rows : r.Name = name).ID
    ELSE NoRowID

\* SaveBackupConfig / SaveNotificationConfig up to the return of First; an
\* error other than not-found is returned
SaveBegin(c, name, val, dbOk) ==
    /\ table.calls[c].pc = "idle"
    /\ table' = [table EXCEPT !.calls[c] =
                   IF dbOk
                   THEN [pc |-> "write", name |-> name, val |-> val,
                         existing |-> DbFirst(name), err |-> ""]
                   ELSE [IdleCall EXCEPT !.err = "query"]]
    /\ UNCHANGED <<mutex, sent, loopvar, notif, drive, conv>>
    /\ UNCHANGED schedVars
    /\ UNCHANGED runVars
    /\ UNCHANGED dispVars

\* as SaveResult, with a Create for every save and no unique index on name
SaveResult_AlwaysCreate(call) ==
    [rows |-> table.rows \cup {[ID |-> table.nextID, Name |-> call.name,
                                Val |-> call.val]},
     nextID |-> table.nextID + 1, err |-> ""]

\* the write of Save*Config. Not found: s.db.Create(config), an insert under
\* the next primary key that the unique index on name refuses when a row of
\* that name exists by now. Found: config.ID = existing.ID, then
\* s.db.Save(config), which writes every field of the row of that ID
SaveResult(call) ==
    IF call.existing = NoRowID
    THEN IF \E r \in table.rows : r.Name = call.name
         THEN [rows |-> table.rows, nextID |-> table.nextID, err |-> "unique"]
         ELSE [rows |-> table.rows \cup {[ID |-> table.nextID,
                                          Name |-> call.name, Val |-> call.val]},
               nextID |-> table.nextID + 1, err |-> ""]
    ELSE [rows |-> {r \in table.rows : r.ID # call.existing}
                     \cup {[ID |-> call.existing, Name |-> call.name,
                            Val |-> call.val]},
          nextID |-> table.nextID, err |-> ""]

\* SaveBackupConfig / SaveNotificationConfig from the return of First on
SaveWrite(c, dbOk) ==
    /\ table.calls[c].pc = "write"
    /\ table.nextID <= MaxRowID
    /\ LET res == SaveResult(table.calls[c]) IN
       table' = IF dbOk
                THEN [rows |-> res.rows, nextID |-> res.nextID,
                      calls |-> [table.calls EXCEPT
                                   ![c] = [IdleCall EXCEPT !.err = res.err]]]
                ELSE [table EXCEPT !.calls[c] = [IdleCall EXCEPT !.err = "write"]]
    /\ UNCHANGED <<mutex, sent, loopvar, notif, drive, conv>>
    /\ UNCHANGED schedVars
    /\ UNCHANGED runVars
    /\ UNCHANGED dispVars

\* ------------------------------------------------------ channel Send
SendKinds == {"discord", "slack", "chatwork"}

\* the URL handed to http.NewRequest parses or not; client.Do returns a
\* response, fails to connect, or runs into the client's Timeout
URLs == {"ok", "unparsable"}

Transports == {"ok", "refused", "timeout"}

\* the statuses a server answers with
Statuses == {100, 199, 200, 201, 204, 299, 300, 302, 400, 404, 429, 500}

\* http.StatusOK
StatusOK == 200

\* resp.StatusCode < 200 || resp.StatusCode >= 300
DiscordLow == 200

DiscordHigh == 300

\* as Accepted, with StatusOK the only accepted status of every kind
Accepted_OnlyOK(kind, status) == status = StatusOK

\* the status check of Send does not return an error
Accepted(kind, status) ==
    IF kind = "discord"
    THEN ~(status < DiscordLow \/ status >= DiscordHigh)
    ELSE ~(status # StatusOK)

\* the error Send returns, "" for nil
SendError(kind, url, transport, status) ==
    IF url # "ok" THEN "request"
    ELSE IF transport # "ok" THEN "send"
    ELSE IF ~Accepted(kind, status) THEN "status"
    ELSE ""

\* DiscordNotifier.Send / SlackNotifier.Send / ChatworkNotifier.Send
Send(kind, url, transport, status) ==
    /\ sent' = [kind |-> kind, url |-> url, transport |-> transport,
                status |-> status,
                err |-> SendError(kind, url, transport, status)]
    /\ UNCHANGED <<mutex, table, loopvar, notif, drive, conv>>
    /\ UNCHANGED schedVars
    /\ UNCHANGED runVars
    /\ UNCHANGED dispVars

\* ------------------------------------------------------- specification
\* the state after NewService: nothing scheduled, nothing stored
Init ==
    /\ cronRunning = FALSE
    /\ nextID = 0
    /\ entries = {}
    /\ jobWaiter = 0
    /\ jobs = << >>
    /\ configs = << >>
    /\ history = << >>
    /\ dbOpen = TRUE
    /\ disk = << >>
    /\ runs = << >>
    /\ now = 0
    /\ owner = [pc |-> "idle", todo |-> {}, close |-> FALSE]
    /\ stopped = FALSE
    /\ lastErr = ""
    /\ chans = << >>
    /\ disp = IdleDisp
    /\ mutex = FreeMutex
    /\ table = EmptyTable
    /\ sent = NoSend
    /\ loopvar = NoAlias
    /\ notif = NoNotifiers
    /\ drive = NoFolders
    /\ conv = NoConv

\* the registry: every call that edits Service.jobs, in any interleaving
Next ==
    \/ \E config \in JobConfigs : AddBackupJob(config)
    \/ \E n \in Names : RemoveBackupJob(n)
    \/ Start
    \/ LoadStep
    \/ \E n \in Names, m \in Modes : AddBackupMySQLConfig(n, m, "valid")

Spec == Init /\ [][Next]_vars

\* the manager API: job configs are created, updated and deleted through
\* LazyManager, and Start loads the stored configs (Initialize)
NextManager ==
    \/ Start
    \/ LoadStep
    \/ \E n \in Names, m \in Modes, c \in CronExprs : AddBackupMySQLConfig(n, m, c)
    \/ \E n \in Names, c \in CronArgs, en \in BOOLEAN : UpdateBackupConfig(n, c, en)
    \/ \E n \in Names : DeleteBackupConfig(n)
    \/ DeleteAllBackupConfig

SpecManager == Init /\ [][NextManager]_vars

\* the load of Start over any stored table: rows written by any version or
\* tool, so a stored schedule need not parse (a five-field "0 2 * * *")
StoredTables ==
    UNION {[S -> JobConfigs] : S \in SUBSET Names}

InitLoad ==
    /\ configs \in {t \in StoredTables : \A n \in DOMAIN t : t[n].name = n}
    /\ cronRunning = FALSE
    /\ nextID = 0
    /\ entries = {}
    /\ jobWaiter = 0
    /\ jobs = << >>
    /\ history = << >>
    /\ dbOpen = TRUE
    /\ disk = << >>
    /\ runs = << >>
    /\ now = 0
    /\ owner = [pc |-> "idle", todo |-> {}, close |-> FALSE]
    /\ stopped = FALSE
    /\ lastErr = ""
    /\ chans = << >>
    /\ disp = IdleDisp
    /\ mutex = FreeMutex
    /\ table = EmptyTable
    /\ sent = NoSend
    /\ loopvar = NoAlias
    /\ notif = NoNotifiers
    /\ drive = NoFolders
    /\ conv = NoConv

NextLoad ==
    \/ Start
    \/ LoadStep

SpecLoad == InitLoad /\ [][NextLoad]_vars

\* the executor: the state after LazyManager.Initialize with one stored job,
\* then firings, manual triggers, Stop / Close and the runs they spawn
RunModes == {"full", "data"}

StoredJob(mode) == [name |-> "a", cron |-> "valid", enabled |-> TRUE, mode |-> mode]

InitRun ==
    \E mode \in RunModes :
      /\ cronRunning = TRUE
      /\ nextID = 1
      /\ entries = {[id |-> 1, cfg |-> StoredJob(mode)]}
      /\ jobWaiter = 0
      /\ jobs = ("a" :> 1)
      /\ configs = ("a" :> StoredJob(mode))
      /\ history = << >>
      /\ dbOpen = TRUE
      /\ disk = << >>
      /\ runs = << >>
      /\ now = 0
      /\ owner = [pc |-> "idle", todo |-> {}, close |-> FALSE]
      /\ stopped = FALSE
      /\ lastErr = ""
      /\ chans = << >>
      /\ disp = IdleDisp
      /\ mutex = FreeMutex
      /\ table = EmptyTable
      /\ sent = NoSend
      /\ loopvar = NoAlias
      /\ notif = NoNotifiers
      /\ drive = NoFolders
      /\ conv = NoConv

NextRun ==
    \/ \E e \in entries : Fire(e)
    \/ ExecuteBackupNow("a")
    \/ AddBackupJob(configs["a"])
    \/ \E close \in BOOLEAN : StopBegin(close)
    \/ StopReturn
    \/ Start
    \/ LoadStep
    \/ \E r \in 1..Len(runs) : RunStep(r)

SpecRun == InitRun /\ [][NextRun]_vars

\* the steps of a run that return without the answer of a remote party or
\* within the Timeout of their http.Client: history writes, the dump, the
\* stat, the notifications (each Send has a 30 s client timeout), the cleanup
LocalStep(r) ==
    \/ RunSave(r)
    \/ RunConnect(r)
    \/ RunDump(r)
    \/ RunStat(r)
    \/ RunFailNotify(r)
    \/ RunFailWrite(r)
    \/ RunSuccWrite(r)
    \/ RunSuccNotify(r)
    \/ RunCleanup(r)

\* manual triggers and the runs they spawn. A step is taken when it can be,
\* except the return of a Storage call (GetOrCreateFolder, UploadFile): its
\* http client is config.Client(context.Background(), token), with no
\* Timeout and no deadline, so it returns only when the remote answers
NextLive ==
    \/ ExecuteBackupNow("a")
    \/ \E r \in 1..Len(runs) : RunStep(r)

SpecLive ==
    /\ InitRun
    /\ [][NextLive]_vars
    /\ \A r \in 1..MaxRuns : WF_vars(r \in DOMAIN runs /\ LocalStep(r))

\* registry calls from several goroutines next to a run
NextLock ==
    \/ \E c \in Callers, config \in LockArgs : RegistryCall(c, "add", config)
    \/ \E c \in Callers, n \in Names : RegistryCall(c, "remove", n)
    \/ \E c \in Callers : RegistryCall(c, "list", "")
    \/ \E c \in Callers : MutexLock(c)
    \/ \E c \in Callers : EditUnlock(c)
    \/ TriggerOne
    \/ \E r \in 1..Len(runs) : RunStepBesideLock(r)

SpecLock == InitRun /\ [][NextLock]_vars

\* manual triggers of the stored job as the wall clock advances, and the
\* runs they spawn
NextPaths ==
    \/ ExecuteBackupNow("a")
    \/ Tick
    \/ \E r \in 1..Len(runs) : RunStep(r)

SpecPaths == InitRun /\ [][NextPaths]_vars

\* the manager storing, enabling and disabling configs, and manual triggers
\* of any name; what a spawned run goes on to do is in SpecRun
NextManual ==
    \/ \E n \in Names : AddBackupMySQLConfig(n, "full", "valid")
    \/ \E n \in Names, en \in BOOLEAN : UpdateBackupConfig(n, "", en)
    \/ \E n \in Names : ExecuteBackupNow(n)

SpecManual == Init /\ [][NextManual]_vars

\* the dispatcher: one call of SendBackupSuccessNotification,
\* SendBackupErrorNotification or TestNotification over any stored channel
\* table
ChannelTables ==
    UNION {[1..n -> ChannelRows] : n \in 0..MaxChannels}

InitDispatch ==
    /\ chans \in ChannelTables
    /\ disp = IdleDisp
    /\ cronRunning = FALSE
    /\ nextID = 0
    /\ entries = {}
    /\ jobWaiter = 0
    /\ jobs = << >>
    /\ configs = << >>
    /\ history = << >>
    /\ dbOpen = TRUE
    /\ disk = << >>
    /\ runs = << >>
    /\ now = 0
    /\ owner = [pc |-> "idle", todo |-> {}, close |-> FALSE]
    /\ stopped = FALSE
    /\ lastErr = ""
    /\ mutex = FreeMutex
    /\ table = EmptyTable
    /\ sent = NoSend
    /\ loopvar = NoAlias
    /\ notif = NoNotifiers
    /\ drive = NoFolders
    /\ conv = NoConv

NextDispatch ==
    \/ \E event \in Events, loadOk \in BOOLEAN : DispatchBegin(event, loadOk)
    \/ DispatchNext
    \/ \E ok \in BOOLEAN : DispatchSendReturn(ok)
    \/ \E k \in 1..MaxChannels : TestNotification(k)

SpecDispatch == InitDispatch /\ [][NextDispatch]_vars

\* the channel configs a manager stores, from an empty table, and one
\* dispatch over what was stored
NextChannels ==
    \/ \E list \in SubmittedLists, deleteOk \in BOOLEAN, saved \in 0..MaxSync :
         SyncNotifications(list, deleteOk, saved)
    \/ \E k \in 1..MaxChannels, c \in SubmittedRows, saveOk \in BOOLEAN :
         AddNotificationConfig(k, c, saveOk)
    \/ \E event \in Events, loadOk \in BOOLEAN : DispatchBegin(event, loadOk)
    \/ DispatchNext
    \/ \E ok \in BOOLEAN : DispatchSendReturn(ok)

SpecChannels == Init /\ [][NextChannels]_vars

\* one config table, from empty, under saves from several goroutines
NextStore ==
    \/ \E c \in Callers, name \in Names, val \in Vals, dbOk \in BOOLEAN :
         SaveBegin(c, name, val, dbOk)
    \/ \E c \in Callers, dbOk \in BOOLEAN : SaveWrite(c, dbOk)

SpecStore == Init /\ [][NextStore]_vars

\* ------------------------------------------------- notification.Manager
\* as AddNotifier, without m.mutex.Lock()
AddNotifier_NoLock(configName, kind) ==
    /\ notif' = [notif EXCEPT !.notifiers = (configName :> kind) @@ @]
    /\ UNCHANGED <<schedVars, runVars, dispVars>>
    /\ UNCHANGED <<mutex, table, sent, loopvar, drive, conv>>

\* AddNotifier: under the write lock, which waits for every read lock to be
\* released, m.notifiers[configName] = notifier
AddNotifier(configName, kind) ==
    /\ notif.readers = 0
    /\ notif' = [notif EXCEPT !.notifiers = (configName :> kind) @@ @]
    /\ UNCHANGED <<schedVars, runVars, dispVars>>
    /\ UNCHANGED <<mutex, table, sent, loopvar, drive, conv>>

\* RemoveNotifier: under the write lock, delete(m.notifiers, configName)
RemoveNotifier(configName) ==
    /\ notif.readers = 0
    /\ notif' = [notif EXCEPT !.notifiers = Without(@, configName)]
    /\ UNCHANGED <<schedVars, runVars, dispVars>>
    /\ UNCHANGED <<mutex, table, sent, loopvar, drive, conv>>

\* SendNotification up to the collecting loop: the read lock is taken, the
\* channel is made with room for len(m.notifiers) results, and one
\* goroutine is started per notifier
SendNotificationBegin ==
    /\ notif.pc \in {"idle", "returned"}
    /\ notif' = [notif EXCEPT !.readers = 1, !.pc = "sending",
                              !.snapshot = notif.notifiers,
                              !.pending = DOMAIN notif.notifiers,
                              !.chan = << >>, !.closed = FALSE,
                              !.results = << >>]
    /\ UNCHANGED <<schedVars, runVars, dispVars>>
    /\ UNCHANGED <<mutex, table, sent, loopvar, drive, conv>>

\* the goroutine of notifier name: n.Send returns nil or an error, the
\* result goes into the channel, wg.Done()
NotifierGoroutine(name, ok) ==
    /\ notif.pc = "sending"
    /\ name \in notif.pending
    /\ Len(notif.chan) < Cardinality(DOMAIN notif.snapshot)
    /\ notif' = [notif EXCEPT
                   !.chan = Append(@, [channel |-> notif.snapshot[name],
                                       success |-> ok]),
                   !.pending = @ \ {name}]
    /\ UNCHANGED <<schedVars, runVars, dispVars>>
    /\ UNCHANGED <<mutex, table, sent, loopvar, drive, conv>>

\* the closing goroutine: wg.Wait() returns, close(resultChan)
CloseResultChan ==
    /\ notif.pc = "sending"
    /\ notif.pending = {}
    /\ ~notif.closed
    /\ notif' = [notif EXCEPT !.closed = TRUE]
    /\ UNCHANGED <<schedVars, runVars, dispVars>>
    /\ UNCHANGED <<mutex, table, sent, loopvar, drive, conv>>

\* one turn of for result := range resultChan
CollectResult ==
    /\ notif.pc = "sending"
    /\ notif.chan # << >>
    /\ notif' = [notif EXCEPT !.results = Append(@, Head(notif.chan)),
                              !.chan = Tail(@)]
    /\ UNCHANGED <<schedVars, runVars, dispVars>>
    /\ UNCHANGED <<mutex, table, sent, loopvar, drive, conv>>

\* the range loop ends on the closed and drained channel; the results are
\* returned and the deferred RUnlock runs
SendNotificationReturn ==
    /\ notif.pc = "sending"
    /\ notif.closed
    /\ notif.chan = << >>
    /\ notif' = [notif EXCEPT !.pc = "returned", !.readers = 0]
    /\ UNCHANGED <<schedVars, runVars, dispVars>>
    /\ UNCHANGED <<mutex, table, sent, loopvar, drive, conv>>

\* the steps of a SendNotification call under way
SendNotificationStep ==
    \/ \E name \in Names, ok \in BOOLEAN : NotifierGoroutine(name, ok)
    \/ CloseResultChan
    \/ CollectResult
    \/ SendNotificationReturn

NextNotify ==
    \/ \E name \in Names, kind \in SendKinds : AddNotifier(name, kind)
    \/ \E name \in Names : RemoveNotifier(name)
    \/ SendNotificationBegin
    \/ SendNotificationStep

\* every started goroutine is scheduled, and Send returns (each notifier's
\* HTTP client has a timeout)
SpecNotify == Init /\ [][NextNotify]_vars /\ WF_vars(SendNotificationStep)

\* ------------------------------------------------------ Drive folders
FolderNames == {"a", "b", "backups"}

\* how far a Drive call gets: the OAuth client, the drive service, the
\* request itself
DriveOutcomes == {"ok", "auth", "service", "request"}

\* no parentFolderID given (or the empty string)
NoParent == 0

\* the folders the query of FindFolder selects: those of that name, within
\* the parent if one is given
Queried(name, parent) ==
    {f \in drive.folders :
        f.name = name /\ (parent # NoParent => f.parent = parent)}

\* FindFolder: what it can return for a lookup that gets as far as lookup;
\* Files.List answers with the selected folders, in an order of its own
FindFolder(name, parent, lookup) ==
    IF lookup = "auth" THEN {[id |-> 0, err |-> "failed to get authenticated client"]}
    ELSE IF lookup = "service" THEN {[id |-> 0, err |-> "failed to create drive service"]}
    ELSE IF lookup = "request" THEN {[id |-> 0, err |-> "failed to search for folder"]}
    ELSE IF Queried(name, parent) = {}
    THEN {[id |-> 0, err |-> "not found"]}
    ELSE {[id |-> f.id, err |-> ""] : f \in Queried(name, parent)}

\* CreateFolder: Files.Create makes a folder of that name, in the parent if
\* one is given, whether or not one exists
CreateFolder(name, parent, create) ==
    IF create = "ok"
    THEN [folders |-> drive.folders \cup
                        {[id |-> drive.nextID, name |-> name, parent |-> parent]},
          nextID |-> drive.nextID + 1,
          ret |-> [id |-> drive.nextID, err |-> ""]]
    ELSE [drive EXCEPT !.ret = [id |-> 0, err |-> "failed to create folder"]]

\* GetOrCreateFolder: the folder FindFolder returned if it returned no
\* error, else CreateFolder
GetOrCreateFolder(name, parent, lookup, create) ==
    /\ drive.nextID <= MaxFolders
    /\ parent \in {NoParent} \cup {f.id : f \in drive.folders}
    /\ \E found \in FindFolder(name, parent, lookup) :
         drive' = IF found.err = "" THEN [drive EXCEPT !.ret = found]
                  ELSE CreateFolder(name, parent, create)
    /\ UNCHANGED <<schedVars, runVars, dispVars>>
    /\ UNCHANGED <<mutex, table, sent, loopvar, notif, conv>>

\* one caller at a time looking folders up, at the top or in a folder there
\* is, against a Drive that answers or fails
NextDrive ==
    \E name \in FolderNames, parent \in 0..MaxFolders,
       lookup \in DriveOutcomes, create \in DriveOutcomes :
        GetOrCreateFolder(name, parent, lookup, create)

SpecDrive == Init /\ [][NextDrive]_vars

\* ------------------------------------------------------- database URLs
\* strings are sequences of characters: a letter and the characters the
\* parser splits on
Chars == {"a", "@", ":", "/", "?", ")"}

FieldValues == UNION {[1..k -> Chars] : k \in 0..MaxFieldLen}

MySQLConfigs ==
    [host : FieldValues, port : FieldValues, user : FieldValues,
     password : FieldValues, database : FieldValues]

MySQLScheme == <<"m", "y", "s", "q", "l", ":", "/", "/">>

TcpOpen == <<"t", "c", "p", "(">>

\* strings.Index for a one-character separator: the position of its first
\* occurrence counted from 1, 0 when there is none
Index(str, ch) ==
    IF \E i \in 1..Len(str) : str[i] = ch
    THEN CHOOSE i \in 1..Len(str) :
           str[i] = ch /\ \A j \in 1..(i - 1) : str[j] # ch
    ELSE 0

RECURSIVE Split(_, _)
\* strings.Split for a one-character separator
Split(str, ch) ==
    LET i == Index(str, ch) IN
    IF i = 0 THEN <<str>>
    ELSE <<SubSeq(str, 1, i - 1)>> \o Split(SubSeq(str, i + 1, Len(str)), ch)

HasPrefix(str, prefix) ==
    Len(str) >= Len(prefix) /\ SubSeq(str, 1, Len(prefix)) = prefix

TrimPrefix(str, prefix) ==
    IF HasPrefix(str, prefix) THEN SubSeq(str, Len(prefix) + 1, Len(str))
    ELSE str

\* database[:queryIndex] when the name holds a '?'
WithoutQuery(database) ==
    IF Index(database, "?") # 0
    THEN SubSeq(database, 1, Index(database, "?") - 1)
    ELSE database

\* MySQLConfig.Validate: the error it returns, "" for none; the password
\* may be anything
Validate(c) ==
    IF c.host = << >> THEN "host is required"
    ELSE IF c.port = << >> THEN "port is required"
    ELSE IF c.user = << >> THEN "user is required"
    ELSE IF c.database = << >> THEN "database is required"
    ELSE ""

\* user:password@tcp(host:port)/database
GetConnectionString(c) ==
    c.user \o <<":">> \o c.password \o <<"@">> \o TcpOpen
      \o c.host \o <<":">> \o c.port \o <<")", "/">> \o c.database

ParseError(err) == [err |-> err, cfg |-> NoMySQLConfig]

ParseMySQLURL(databaseURL) ==
    LET url == TrimPrefix(databaseURL, MySQLScheme)
        parts == Split(url, "@")
    IN
    IF Len(parts) # 2 THEN ParseError("invalid connection URL format")
    ELSE
    LET userPassParts == Split(parts[1], ":")
        remaining == parts[2]
    IN
    IF Len(userPassParts) # 2 THEN ParseError("invalid username:password format")
    ELSE IF HasPrefix(remaining, TcpOpen)
    THEN LET rest == TrimPrefix(remaining, TcpOpen)
             parenIndex == Index(rest, ")")
         IN
         IF parenIndex = 0
         THEN ParseError("missing closing parenthesis in connection URL")
         ELSE
         LET hostPortParts == Split(SubSeq(rest, 1, parenIndex - 1), ":")
             dbPart == SubSeq(rest, parenIndex + 1, Len(rest))
         IN
         IF Len(hostPortParts) # 2 THEN ParseError("invalid host:port format")
         ELSE [err |-> "",
               cfg |-> [host |-> hostPortParts[1], port |-> hostPortParts[2],
                        user |-> userPassParts[1],
                        password |-> userPassParts[2],
                        database |-> WithoutQuery(TrimPrefix(dbPart, <<"/">>))]]
    ELSE
    LET slashIndex == Index(remaining, "/") IN
    IF slashIndex = 0 THEN ParseError("missing database name")
    ELSE
    LET hostPortParts == Split(SubSeq(remaining, 1, slashIndex - 1), ":")
        database == SubSeq(remaining, slashIndex + 1, Len(remaining))
    IN
    IF Len(hostPortParts) # 2 THEN ParseError("invalid host:port format")
    ELSE [err |-> "",
          cfg |-> [host |-> hostPortParts[1], port |-> hostPortParts[2],
                   user |-> userPassParts[1], password |-> userPassParts[2],
                   database |-> WithoutQuery(database)]]

\* AddBackupMySQLConfig as far as the stored URL goes: a config that passes
\* Validate is stored as "mysql://" + GetConnectionString(); one config is
\* followed from the save to the run
StoreDatabaseURL(dbConfig) ==
    /\ conv.kind = "none"
    /\ conv' = IF Validate(dbConfig) # ""
               THEN [NoConv EXCEPT !.kind = "rejected"]
               ELSE [NoConv EXCEPT !.kind = "stored", !.config = dbConfig,
                                   !.url = MySQLScheme \o GetConnectionString(dbConfig)]
    /\ UNCHANGED <<schedVars, runVars, dispVars>>
    /\ UNCHANGED <<mutex, table, sent, loopvar, notif, drive>>

\* executeBackup's NewBackupFromURL(config.DatabaseURL): the URL is parsed
\* and the parsed config validated
NewBackupFromURL ==
    /\ conv.kind = "stored"
    /\ LET res == ParseMySQLURL(conv.url) IN
       conv' = [conv EXCEPT
                  !.kind = "parsed",
                  !.parsed = IF res.err = "" /\ Validate(res.cfg) # ""
                             THEN [res EXCEPT !.err = Validate(res.cfg)]
                             ELSE res]
    /\ UNCHANGED <<schedVars, runVars, dispVars>>
    /\ UNCHANGED <<mutex, table, sent, loopvar, notif, drive>>

NextURL ==
    \/ \E dbConfig \in MySQLConfigs : StoreDatabaseURL(dbConfig)
    \/ NewBackupFromURL

SpecURL == Init /\ [][NextURL]_vars

\* Send of each kind of notifier against any URL, transport and answer
NextSend ==
    \E kind \in SendKinds, url \in URLs, transport \in Transports,
       status \in Statuses : Send(kind, url, transport, status)

SpecSend == Init /\ [][NextSend]_vars

\* ============================================================== claims
InFlight(r) == runs[r].pc # "done"

Terminal(status) == status \in {"success", "failed"}

\* C1: at most one registry entry and one live cron trigger per job name:
\* every live trigger is the one the registry records for its name, every
\* registry entry has its trigger, and GetScheduledJobs lists each scheduled
\* name exactly once.
C1_OneTriggerPerName ==
    /\ \A e \in entries :
         /\ e.cfg.name \in DOMAIN jobs
         /\ jobs[e.cfg.name] = e.id
    /\ \A n \in DOMAIN jobs : \E e \in entries : e.id = jobs[n]
    /\ \A n \in DOMAIN jobs :
         Cardinality({j \in GetScheduledJobs : j.name = n}) = 1
    /\ Cardinality(entries) = Cardinality(DOMAIN jobs)

\* both names are scheduled and one of them has been re-added
C1_Witness ==
    /\ DOMAIN jobs = Names
    /\ nextID = 3
    /\ Cardinality(entries) = 2

\* C2: AddBackupJob with a malformed cron expression returns an error and
\* leaves the registry and the live triggers as they were, also when the
\* name already had an entry.
C2_MalformedLeavesRegistry ==
    [][\A config \in JobConfigs :
         (config.enabled /\ ~CronParses(config.cron) /\ AddBackupJob(config))
           => (lastErr' # "" /\ jobs' = jobs /\ entries' = entries)]_vars

\* C3: a history row starts in_progress and moves to one terminal status by
\* one update that sets status, completedAt and error together; a terminal
\* row is never written again, and every run issues exactly one update.
C3_RowsWellFormed ==
    /\ \A h \in 1..Len(history) :
         /\ history[h].status \in {"in_progress", "success", "failed"}
         /\ history[h].completed <=> Terminal(history[h].status)
         /\ (history[h].err # "") <=> (history[h].status = "failed")
    /\ \A r \in 1..Len(runs) :
         /\ runs[r].nUpd <= 1
         /\ (runs[r].pc = "done" /\ runs[r].hid # 0) => runs[r].nUpd = 1
         /\ \A q \in 1..Len(runs) :
              (q # r /\ runs[r].hid # 0) => runs[q].hid # runs[r].hid

C3_RowStep ==
    /\ Len(history') >= Len(history)
    /\ \A h \in 1..Len(history) :
         \/ history'[h] = history[h]
         \/ /\ history[h].status = "in_progress"
            /\ Terminal(history'[h].status)
    /\ \A h \in (Len(history) + 1)..Len(history') :
         history'[h].status = "in_progress"

C4_EveryRunRecorded ==
    \A r \in 1..Len(runs) :
      runs[r].pc = "done" =>
        /\ runs[r].hid # 0
        /\ Terminal(history[runs[r].hid].status)

\* C5: when a run has returned, no temporary file it created is on disk.
C5_NoTempFileLeft ==
    \A r \in 1..Len(runs) :
      runs[r].pc = "done" => \A p \in DOMAIN disk : disk[p] # r

C8_BlockedOnlyByScheduled ==
    (owner.pc = "stopping" /\ ~StopCanReturn)
       => \E r \in 1..Len(runs) : runs[r].origin = "cron" /\ InFlight(r)

C8_ReturnStep ==
    (owner.pc = "stopping" /\ owner'.pc = "idle")
       => \A r \in 1..Len(runs) : runs[r].origin = "cron" => ~InFlight(r)

C9_NoFiringAfterStop ==
    [][(stopped /\ stopped')
         => \A r \in (Len(runs) + 1)..Len(runs') : runs'[r].origin = "manual"]_vars

\* Stop has returned, the registry holds an entry registered by a later
\* AddBackupJob than the initial load, and a further run could be spawned
C9_Witness ==
    /\ stopped
    /\ owner.pc = "idle"
    /\ \E e \in entries : e.id > 1
    /\ Len(runs) < MaxRuns

\* C10: a terminal update issued after the database was closed by Close is
\* still persisted.
C10_OutcomeSurvivesClose ==
    [][\A r \in 1..Len(runs) :
         (~dbOpen /\ runs[r].pc \in {"fail_write", "succ_write"}
                  /\ runs'[r].pc # runs[r].pc)
           => Terminal(history'[runs[r].hid].status)]_vars

\* the rows a dispatch of disp.event is due to deliver to
Matching ==
    {k \in 1..Len(chans) : chans[k].enabled /\ NotifyFlag(chans[k], disp.event)}

\* C6: no Send has been waited for while the Send of another matching
\* channel has not been started.
C6_AllStartedBeforeAnyWait ==
    (disp.loaded /\ disp.returned # {}) =>
       {k \in Matching : CanBuild(chans[k])} \subseteq disp.started

\* C7: a dispatch that loaded the channel table returns exactly one result
\* per enabled row whose notify flag matches the event.
C7_OneResultPerMatch ==
    (disp.pc = "done" /\ disp.loaded) =>
       /\ Len(disp.results) = Cardinality(Matching)
       /\ \A k \in Matching :
            \E x \in 1..Len(disp.results) : disp.results[x].channel = k

\* the manager has been started: Start has run and its load has finished
Started == cronRunning /\ owner.pc = "idle"

\* the names of the job configs that are stored and enabled
StoredEnabled == {n \in DOMAIN configs : configs[n].enabled}

\* C11: on a started manager, after any sequence of creates, updates and
\* deletes made through the manager API, the registry holds an entry for
\* exactly the job configs that are stored and enabled.
C11_RegistryMirrorsStore == Started => DOMAIN jobs = StoredEnabled

\* C20: AddBackupJob with a config whose enabled flag is false returns an
\* error, hands out no trigger and leaves the registry and the live
\* triggers as they were, also when the name already had an entry.
C20_DisabledRejected ==
    [][\A config \in JobConfigs :
         (~config.enabled /\ AddBackupJob(config))
           => /\ lastErr' # ""
              /\ jobs' = jobs
              /\ entries' = entries
              /\ nextID' = nextID]_vars

\* a disabled config was rejected while both names had an entry
C20_Witness ==
    /\ lastErr = "disabled"
    /\ DOMAIN jobs = Names
    /\ Cardinality(entries) = 2

\* the run has returned and had written its running record
Returned(r) == runs[r].pc = "done" /\ runs[r].hid # 0

\* the errors of the artifact request: backup service creation, connection
\* test, dump
ArtifactErrors == {"svc", "conn", "dump"}

\* C12: a run whose artifact request failed ends with its history row in
\* status failed, completedAt set and the backup error as error message,
\* and has made no folder or upload call to Storage.
C12_ArtifactFailureRecorded ==
    \A r \in 1..Len(runs) :
      (Returned(r) /\ runs[r].herr \in ArtifactErrors) =>
        /\ history[runs[r].hid].status = "failed"
        /\ history[runs[r].hid].completed
        /\ history[runs[r].hid].err = runs[r].herr
        /\ runs[r].nFolder = 0
        /\ runs[r].nUpload = 0

\* C13: a run in which a stage failed after the running record was written
\* is recorded as failed, has dispatched the failure notification exactly
\* once and no success notification, and has executed no later stage.
C13_FailureRecordedAndNotifiedOnce ==
    \A r \in 1..Len(runs) :
      (Returned(r) /\ runs[r].herr # "") =>
        /\ history[runs[r].hid].status = "failed"
        /\ runs[r].nErr = 1
        /\ runs[r].nOk = 0
        /\ runs[r].herr \in {"svc", "conn"} => runs[r].path = NoPath
        /\ runs[r].herr \in ArtifactErrors \cup {"stat"} => runs[r].nFolder = 0
        /\ runs[r].herr # "upload" => runs[r].nUpload = 0

\* the outcome a run has decided on: status, file fields and error message
Outcome(rec) == <<rec.hstatus, rec.hfile, rec.hfileID, rec.hsize, rec.herr>>

C16_NotifyStep ==
    \A r \in 1..Len(runs) :
      (runs[r].pc \in {"fail_notify", "succ_notify"} /\ runs'[r].pc # runs[r].pc)
        => /\ history' = history
           /\ Outcome(runs'[r]) = Outcome(runs[r])

C16_RowIsOutcome ==
    \A r \in 1..Len(runs) :
      (runs[r].hid # 0 /\ Terminal(history[runs[r].hid].status))
        => history[runs[r].hid] = HistoryRow(runs[r])

C16_SameStagesSameRow ==
    \A r, q \in 1..Len(runs) :
      (/\ Returned(r) /\ Returned(q)
       /\ Terminal(history[runs[r].hid].status)
       /\ Terminal(history[runs[q].hid].status)
       /\ runs[r].herr = runs[q].herr
       /\ runs[r].path = runs[q].path)
        => [history[runs[r].hid] EXCEPT !.fileID = NoFileID]
             = [history[runs[q].hid] EXCEPT !.fileID = NoFileID]

\* C16: the result of a notification dispatch never changes what a run
\* persists: a dispatch step leaves the history table and the run's outcome
\* as they were, every terminal row is the outcome the stages decided, and
\* two runs whose stages ended alike have the same row whatever their
\* deliveries did.
C16_DeliveryNeverChangesOutcome ==
    [][C16_NotifyStep]_vars /\ []C16_RowIsOutcome /\ []C16_SameStagesSameRow

\* a successful run whose row is written got no delivery through, and a
\* failed run whose channel table could not be loaded is about to write
C16_Witness ==
    \E r, q \in 1..Len(runs) :
      /\ runs[r].pc = "cleanup"
      /\ runs[r].delivery = "all_failed"
      /\ history[runs[r].hid].status = "success"
      /\ runs[q].pc = "fail_write"
      /\ runs[q].delivery = "not_loaded"

\* C17: a run in which backup, folder and upload all succeeded ends with
\* its history row in status success carrying the uploaded file's name, id
\* and size, after one update, and has dispatched no failure notification.
C17_SuccessRecorded ==
    \A r \in 1..Len(runs) :
      (Returned(r) /\ runs[r].nUpload = 1 /\ runs[r].herr = "") =>
        /\ history[runs[r].hid]
             = [status |-> "success", completed |-> TRUE,
                file |-> UploadResult(r, runs[r].path).FileName,
                fileID |-> UploadResult(r, runs[r].path).FileID,
                size |-> UploadResult(r, runs[r].path).Size, err |-> ""]
        /\ runs[r].nUpd = 1
        /\ runs[r].nErr = 0

\* C18: while the clock runs, every registered job can fire and a manual
\* trigger can spawn its run, whatever the runs already in progress are
\* doing: no firing waits for, or is dropped because of, an earlier run.
C18_FiringNeverHeld ==
    (Len(runs) < MaxRuns) =>
       /\ ClockRuns => \A e \in entries : ENABLED Fire(e)
       /\ ENABLED ExecuteBackupNow("a")

\* two scheduled runs of the same job are in the middle of their work: the
\* second firing was started while the first run was uploading
C18_Witness ==
    \E r, q \in 1..Len(runs) :
      /\ r < q
      /\ runs[r].origin = "cron" /\ runs[q].origin = "cron"
      /\ runs[r].cfg.name = runs[q].cfg.name
      /\ runs[r].pc = "upload"
      /\ runs[q].pc \in {"save", "connect", "dump"}

\* C19: ExecuteBackupNow returns at once: when the config is loaded it has
\* spawned exactly one run of that config, which has taken no step yet, and
\* reports no error; when the config cannot be loaded it reports an error
\* and spawns nothing. Either way it writes no history and touches no other
\* run.
C19_TriggerNowSpawnsOne ==
    [][ExecuteBackupNow("a") =>
         /\ history' = history
         /\ \A r \in 1..Len(runs) : runs'[r] = runs[r]
         /\ IF dbOpen /\ "a" \in DOMAIN configs
            THEN /\ lastErr' = ""
                 /\ Len(runs') = Len(runs) + 1
                 /\ runs'[Len(runs')].cfg = configs["a"]
                 /\ runs'[Len(runs')].origin = "manual"
                 /\ runs'[Len(runs')].pc = "save"
                 /\ runs'[Len(runs')].hid = 0
            ELSE /\ lastErr' # ""
                 /\ Len(runs') = Len(runs)]_vars

\* a manual run has been spawned and has not started, next to a run in
\* progress; the store is closed, so a further trigger cannot load
C19_Witness ==
    /\ ~dbOpen
    /\ \E r, q \in 1..Len(runs) :
         /\ runs[r].origin = "manual" /\ runs[r].pc = "save"
         /\ runs[q].pc \in {"dump", "upload"}

\* C14: every channel a success dispatch has called Send on is enabled and
\* has notifyOnSuccess set; every channel a failure dispatch has called Send
\* on is enabled and has notifyOnError set.
C14_OnlyFlaggedChannels ==
    \A k \in disp.started :
      /\ disp.event = "success" => (chans[k].enabled /\ chans[k].onSuccess)
      /\ disp.event = "failure" => (chans[k].enabled /\ chans[k].onError)

\* a success dispatch has returned after a Send, and has passed over an
\* enabled channel that wants failures only and a disabled channel that
\* wants successes
C14_Witness ==
    /\ disp.pc = "done"
    /\ disp.event = "success"
    /\ disp.started # {}
    /\ \E j, i \in 1..Len(chans) :
         /\ chans[j].enabled /\ ~chans[j].onSuccess /\ chans[j].onError
         /\ CanBuild(chans[j]) /\ j \notin disp.started
         /\ ~chans[i].enabled /\ chans[i].onSuccess
         /\ CanBuild(chans[i]) /\ i \notin disp.started

\* C15: no operation of the dispatcher (success dispatch, failure dispatch,
\* TestNotification) has called Send on a channel whose enabled flag is
\* false.
C15_NeverSendsToDisabled == \A k \in disp.started : chans[k].enabled

\* C24: TestNotification returns with every stored channel config as it was;
\* it has called Send at most once, on the named channel, and that Send has
\* returned before TestNotification does; it returns no error exactly when
\* the config was found, the notifier was built and Send succeeded, and it
\* calls Send exactly when the config was found and the notifier was built.
C24_TestNotification ==
    [][\A k \in 1..MaxChannels :
         TestNotification(k) =>
           /\ chans' = chans
           /\ disp'.pc = "done"
           /\ disp'.started \subseteq {k}
           /\ disp'.returned = disp'.started
           /\ Len(disp'.results) = Cardinality(disp'.started)
           /\ disp'.started = {k} <=> (k \in DOMAIN chans /\ CanBuild(chans[k]))
           /\ disp'.err = "" <=>
                /\ disp'.started = {k}
                /\ disp'.results[1].success]_vars

\* a test of a stored channel whose Send failed has returned that error
C24_Witness ==
    /\ disp.pc = "done"
    /\ disp.event = "test"
    /\ disp.err = "send"
    /\ disp.started # {}
    /\ ~disp.results[1].success

\* C25: no stored channel config lacks a required field, and no dispatch has
\* called Send on a channel whose config lacks one.
C25_MissingFieldNeverStored ==
    /\ \A k \in DOMAIN chans : chans[k].settings # "missing"
    /\ \A k \in disp.started : chans[k].settings # "missing"

\* C26: on a manager whose store is written through the manager API only,
\* every stored and every scheduled cron expression is one the parser of
\* ValidateCronExpression accepts, AddBackupJob has never been handed an
\* expression its parser refuses, and a call of AddBackupMySQLConfig or
\* UpdateBackupConfig with a new expression that parser refuses leaves the
\* store and the registry as they were.
C26_OnlyValidatedCron ==
    /\ [](/\ \A n \in DOMAIN configs : CronParses(configs[n].cron)
          /\ \A e \in entries : CronParses(e.cfg.cron)
          /\ lastErr # "cron")
    /\ [][\A n \in Names, c \in CronExprs :
            /\ ~CronParses(c)
            /\ \/ \E m \in Modes : AddBackupMySQLConfig(n, m, c)
               \/ /\ \E en \in BOOLEAN : UpdateBackupConfig(n, c, en)
                  /\ n \in DOMAIN configs
            => /\ configs' = configs
               /\ jobs' = jobs
               /\ entries' = entries
               /\ lastErr' = "invalid cron"]_vars

\* a malformed expression has just been rejected on a manager that has a
\* stored and scheduled job
C26_Witness ==
    /\ lastErr = "invalid cron"
    /\ configs # << >>
    /\ jobs # << >>

\* C29: a config table never holds two records of one name, and the write of
\* a save that found a record of its name returns no error, leaves that
\* record under the ID it had with the saved value, and leaves every other
\* record as it was.
C29_SaveIsUpsert ==
    /\ [](\A r1, r2 \in table.rows : r1.Name = r2.Name => r1 = r2)
    /\ [][\A c \in Callers :
            /\ SaveWrite(c, TRUE)
            /\ table.calls[c].existing # NoRowID
            => LET call == table.calls[c] IN
               /\ table'.calls[c].err = ""
               /\ [ID |-> call.existing, Name |-> call.name, Val |-> call.val]
                    \in table'.rows
               /\ \A r \in table.rows : r.Name # call.name => r \in table'.rows
               /\ Cardinality(table'.rows) = Cardinality(table.rows)]_vars

\* both names are stored, the record created first has been saved again and
\* holds the later value under the first ID, and a Create that raced with
\* another save of its name was refused
C29_Witness ==
    /\ Cardinality(table.rows) = 2
    /\ table.nextID = 3
    /\ \E r \in table.rows : r.ID = 1 /\ r.Val = "y"
    /\ \E c \in Callers : table.calls[c].err = "unique"

\* C30: a Send returns no error exactly when the URL parsed, the transport
\* delivered a response and the status is one its kind accepts: 200 to 299
\* for Discord, 200 alone for Slack and Chatwork.
C30_SendAcceptsByKind ==
    sent.kind # "none" =>
      (sent.err = "" <=>
         /\ sent.url = "ok"
         /\ sent.transport = "ok"
         /\ \/ sent.kind = "discord" /\ sent.status \in 200..299
            \/ sent.kind \in {"slack", "chatwork"} /\ sent.status = 200)

\* a Discord Send answered with 204 has returned no error
C30_Witness ==
    /\ sent.kind = "discord"
    /\ sent.url = "ok"
    /\ sent.transport = "ok"
    /\ sent.status = 204
    /\ sent.err = ""

\* C28: every run that was spawned returns.
C28_EveryRunTerminates ==
    \A r \in 1..MaxRuns :
      [](r \in DOMAIN runs => <>(r \in DOMAIN runs /\ runs[r].pc = "done"))

\* C27: the goroutine that holds the registry lock exclusively is inside
\* AddBackupJob or RemoveBackupJob, at the registry edit, and no other
\* goroutine holds the lock with it; the goroutines that hold it shared are
\* inside GetScheduledJobs; no run holds it; and every run in flight can take
\* its next step whoever holds the lock or waits for it.
C27_LockOnlyForRegistryEdit ==
    /\ mutex.writer # NoCaller =>
         /\ mutex.readers = {}
         /\ mutex.writer \in DOMAIN mutex.calls
         /\ mutex.calls[mutex.writer].pc = "held"
         /\ mutex.calls[mutex.writer].op \in {"add", "remove"}
    /\ \A c \in mutex.readers :
         /\ c \in DOMAIN mutex.calls
         /\ mutex.calls[c].pc = "held"
         /\ mutex.calls[c].op = "list"
    /\ \A c \in DOMAIN mutex.calls :
         mutex.calls[c].pc = "held" => (c = mutex.writer \/ c \in mutex.readers)
    /\ \A r \in 1..Len(runs) :
         InFlight(r) => ENABLED <<RunStepBesideLock(r)>>_vars

\* a goroutine holds the lock for an edit, another waits for it, and the
\* run in flight is at the upload
C27_Witness ==
    /\ mutex.writer # NoCaller
    /\ \E c \in DOMAIN mutex.calls : mutex.calls[c].pc = "wait"
    /\ \E r \in 1..Len(runs) : runs[r].pc = "upload"

\* C31: the failure notification of a run carries the name of the run's
\* config.
C31_FailureEventNamesJob ==
    \A r \in 1..Len(runs) :
      runs[r].nErr > 0 => runs[r].evName = runs[r].cfg.name

\* C32: two runs in flight never hold the same artifact path, and the
\* artifact of a run that is at the upload is on disk and is the file that
\* run wrote.
C32_DistinctArtifactPaths ==
    /\ \A r1, r2 \in 1..Len(runs) :
         /\ r1 # r2
         /\ InFlight(r1) /\ InFlight(r2)
         /\ runs[r1].path # NoPath /\ runs[r2].path # NoPath
         => runs[r1].path # runs[r2].path
    /\ \A r \in 1..Len(runs) :
         runs[r].pc = "upload" =>
           /\ runs[r].path \in DOMAIN disk
           /\ disk[runs[r].path] = r

\* C33: a run that has sent a notification, of success or of failure, has
\* called UpdateBackupHistory with its terminal record before.
C33_RecordBeforeNotification ==
    \A r \in 1..Len(runs) :
      (runs[r].nErr > 0 \/ runs[r].nOk > 0) => runs[r].nUpd > 0

\* C40: the stored database URL round-trips: for every MySQLConfig that
\* passes Validate, parsing "mysql://" + GetConnectionString() succeeds and
\* gives back the same host, port, user, password and database.
C40_DatabaseURLRoundTrips ==
    conv.kind = "parsed" =>
        (conv.parsed.err = "" /\ conv.parsed.cfg = conv.config)

\* C39: with one caller at a time, GetOrCreateFolder creates a folder only
\* when no folder of that name exists, whatever error the lookup returned.
C39_CreatesOnlyWhenAbsent ==
    [][\A name \in FolderNames :
         \A parent \in 0..MaxFolders :
           (/\ \E lookup \in DriveOutcomes, create \in DriveOutcomes :
                  GetOrCreateFolder(name, parent, lookup, create)
            /\ drive'.folders # drive.folders)
             => Queried(name, parent) = {}]_vars

\* the results of channel type kind, and the notifiers of that type among
\* those registered when the call began
ResultsOf(kind) ==
    {i \in 1..Len(notif.results) : notif.results[i].channel = kind}

SnapshotOf(kind) ==
    {n \in DOMAIN notif.snapshot : notif.snapshot[n] = kind}

\* C38: SendNotification always terminates and returns exactly one result
\* per notifier registered when it was called, whatever the interleaving of
\* the goroutines and whichever Sends fail; while it is under way the set of
\* notifiers is the one it started with.
C38_SendNotificationCompletes ==
    /\ [](notif.pc = "sending" => notif.notifiers = notif.snapshot)
    /\ [](notif.pc = "returned" =>
            /\ Len(notif.results) = Cardinality(DOMAIN notif.snapshot)
            /\ \A kind \in SendKinds :
                 Cardinality(ResultsOf(kind)) = Cardinality(SnapshotOf(kind)))
    /\ (notif.pc = "sending") ~> (notif.pc = "returned")

\* a send over two notifiers has returned one success and one failure
C38_Witness ==
    /\ notif.pc = "returned"
    /\ Cardinality(DOMAIN notif.snapshot) = 2
    /\ \E i, j \in 1..Len(notif.results) :
         notif.results[i].success /\ ~notif.results[j].success

\* the registry entries and the live triggers of every name but n are the
\* same before and after the step
OthersUntouched(n) ==
    /\ \A m \in Names \ {n} :
         /\ m \in DOMAIN jobs <=> m \in DOMAIN jobs'
         /\ m \in DOMAIN jobs => jobs'[m] = jobs[m]
    /\ \A e \in entries :
         (n \notin DOMAIN jobs \/ e.id # jobs[n])
           => (e \in entries' /\ ClosureConfig(e)' = ClosureConfig(e))
    /\ \A e \in entries' : e \in entries \/ e.cfg.name = n

\* C37: AddBackupJob and RemoveBackupJob change only the registry entry and
\* the trigger of the name they are called with, whether they succeed or
\* fail; every other name keeps its entry and its trigger.
C37_OtherJobsUntouched ==
    [][/\ \A config \in JobConfigs :
            AddBackupJob(config) => OthersUntouched(config.name)
       /\ \A n \in Names :
            RemoveBackupJob(n) => OthersUntouched(n)]_vars

\* a failed AddBackupJob has taken its own name out of the registry and
\* another name is still scheduled
C37_Witness ==
    /\ lastErr = "cron"
    /\ nextID = 2
    /\ \E m \in Names : DOMAIN jobs = {m} /\ jobs[m] = 1
    /\ Cardinality(entries) = 1

\* the store and the registry agree on every name
StoreAndRegistryAgree ==
    \A n \in Names :
        (n \in DOMAIN jobs) <=> (n \in DOMAIN configs /\ configs[n].enabled)

\* C36: when UpdateBackupConfig or DeleteBackupConfig returns an error, a
\* store and registry that agreed before the call agree after it: a job is
\* scheduled if and only if its stored config exists and is enabled.
C36_ErrorKeepsAgreement ==
    [][(/\ \/ \E n \in Names, c \in CronArgs, en \in BOOLEAN :
                 UpdateBackupConfig(n, c, en)
           \/ \E n \in Names : DeleteBackupConfig(n)
        /\ lastErr' # ""
        /\ StoreAndRegistryAgree)
       => StoreAndRegistryAgree']_vars

\* C35: ExecuteBackupNow never starts a run for a config that is stored as
\* disabled: every run of manual origin was spawned for an enabled config.
C35_ManualRunOnlyWhenEnabled ==
    \A r \in 1..Len(runs) :
        runs[r].origin = "manual" => runs[r].cfg.enabled

C21_RemoveIdempotent ==
    [][\A n \in Names :
         RemoveBackupJob(n) =>
           /\ lastErr' = lastErr
           /\ nextID' = nextID
           /\ n \notin DOMAIN jobs => (jobs' = jobs /\ entries' = entries)
           /\ n \notin DOMAIN jobs'
           /\ \A e \in entries' : e.cfg.name # n
           /\ \A m \in DOMAIN jobs \ {n} :
                m \in DOMAIN jobs' /\ jobs'[m] = jobs[m]]_vars

\* both names were scheduled and both have been removed
C21_Witness ==
    /\ nextID = 2
    /\ jobs = << >>
    /\ entries = {}
    /\ lastErr = ""

\* the stored configs that Start can register: enabled, with a schedule
\* that parses
Loadable == {n \in StoredEnabled : CronParses(configs[n].cron)}

\* C22: once the load of Start has finished, every stored enabled config
\* whose registration succeeds has its registry entry and its live trigger,
\* whatever configs failed before or after it in the loop.
C22_FailedConfigSkipped ==
    Started =>
      \A n \in Loadable :
        /\ n \in DOMAIN jobs
        /\ \E e \in entries : e.id = jobs[n]

\* the load has finished with one config rejected and, after it, another
\* registered
C22_Witness ==
    /\ Started
    /\ lastErr = ""
    /\ \E n \in StoredEnabled : ~CronParses(configs[n].cron)
    /\ \E m \in Loadable : m \in DOMAIN jobs

\* C23: after any number of Starts on the same stored configs the clock
\* runs and the registry is the one a single Start leaves: exactly one
\* entry and one live trigger per enabled job that registers.
C23_RestartKeepsRegistry ==
    Started =>
      /\ cronRunning
      /\ DOMAIN jobs = Loadable
      /\ Cardinality(entries) = Cardinality(Loadable)
      /\ \A n \in Loadable :
           /\ Cardinality({e \in entries : e.id = jobs[n]}) = 1
           /\ \A m \in Loadable : m # n => jobs[m] # jobs[n]

\* a second Start has finished: more triggers were handed out than jobs
\* are registered
C23_Witness ==
    /\ Started
    /\ jobs # << >>
    /\ nextID > Cardinality(DOMAIN jobs)

====
